---------------------------- MODULE Spec2Model ----------------------------
(***************************************************************************)
(* Finit service supervisor: registry, condition store, reload,            *)
(* runlevels, pidfile monitor and the client API, as one state machine.    *)
(*                                                                         *)
(* pidfile.c (pidfile_callback, pidfile_reconf), api.c (start, stop,       *)
(* restart, emit, runlevel) and conf.c (conf_parse_cond, conf_reload) are  *)
(* translated from the sources.  service.c, svc.c and cond.c are not part  *)
(* of the source tree at hand; the state machine, the registry helpers     *)
(* and the condition store are modelled from the design document.          *)
(***************************************************************************)
EXTENDS Integers, Sequences, FiniteSets, TLC

(***************************************************************************)
(* Bounds of the model                                                     *)
(***************************************************************************)
\* process ids handed out by fork(); a pid is never handed out twice
MaxPid == 3
\* restart cap: exits tolerated before a record is BLOCKED
RespawnMax == 1
\* external inputs (edits, requests, signals, inotify events, crashes)
\* delivered in one behaviour
MaxInputs == 6
\* clients and outside events acting in the control-socket scenario
MaxApiInputs == 3
\* outside events acting in the supervision scenario
MaxSupInputs == 4
\* requests and emitted facts besides the runlevel change
MaxLvlInputs == 3
MaxIterInputs == 6
MaxRules == 3
MaxFieldLen == 3
MaxLines == 2
MaxConfEdits == 1

PIDs == 1..MaxPid
Cmds == {"A", "B", "C"}
CmdOrder == <<"A", "B", "C">>
Levels == 0..9
\* runlevels requested through the API in the model
LevelInputs == {2, 3}

NoSvc == [state |-> "NONE"]
NoLine == [type |-> "none"]

(***************************************************************************)
(* Condition names.  A name is <<namespace, rest>>, so that the prefix     *)
(* test of conf_parse_cond is computed and not assumed.                    *)
(***************************************************************************)
mkcond(cmd) == <<"svc", cmd>>
UsrCond == <<"usr", "x">>
\* the fact a client sets with `emit +RELOAD`
WordCond == <<"word", "RELOAD">>
Facts == {mkcond(c) : c \in Cmds} \cup {UsrCond, WordCond}
\* the facts a client emits
EmitFacts == {mkcond("A"), mkcond("B"), UsrCond}

(***************************************************************************)
(* On-disk configuration: one stanza per command, or no line.              *)
(*   lvls  : the runlevel field, already a set of levels                   *)
(*   bang  : the condition field starts with '!'                           *)
(*   conds : the condition names between < and >, in order                 *)
(*   desc  : the description after "--"                                    *)
(***************************************************************************)
Stanza(t, l, b, cs, fk, d) ==
    [type |-> t, lvls |-> l, bang |-> b, conds |-> cs, forking |-> fk, desc |-> d]

StanzaChoices(c) ==
    IF c = "A"
    THEN { Stanza("service", {2, 3, 4, 5}, FALSE, <<>>, FALSE, 0),
           Stanza("service", {2, 3, 4, 5}, FALSE, <<>>, FALSE, 1),
           Stanza("service", {2}, FALSE, <<>>, FALSE, 0) }
    ELSE IF c = "B"
    THEN { Stanza("service", {2, 3}, FALSE, <<mkcond("A")>>, FALSE, 0),
           Stanza("service", {2, 3}, TRUE, <<UsrCond, mkcond("A")>>, TRUE, 0) }
    ELSE { }

VARIABLES
    svc,        \* registry: command -> service record, or NoSvc
    cond,       \* condition store: fact -> "OFF" | "FLUX" | "ON"
    proc,       \* pid -> [st : unused | alive | zombie | reaped | crashed, owner];
                \* crashed: collected after an exit the supervisor had not asked for
    hupd,       \* pids that have been sent the reconfigure signal
    runlevel,   \* current runlevel
    prevlevel,  \* previous runlevel
    conf,       \* on-disk configuration: command -> stanza, or NoLine
    nin,        \* number of external inputs delivered so far
    tpc,        \* position of the test script at hand ("off": not run)
    halt,       \* shutdown action armed: SHUT_DEFAULT | SHUT_OFF | SHUT_REBOOT
    request,    \* what the reads of the last API connection returned
    replies,    \* frames written to the last API connection, in order
    unread,     \* frames the client had sent and the server never read
    iter,       \* api_cb's enumeration cursor: place in the registry of the
                \* record the next enumerate request returns, 0 for none
    got,        \* client -> the snapshots it has received, in order
    filters,    \* filter rules of the inetd record, in declaration order
    conn,       \* the last connection to the inetd record: interface, verdict
    finitconf,  \* on-disk finit.conf: its lines, in order
    single,     \* "single" or "S" was given on the command line
    cfglevel,   \* the runlevel to enter when bootstrap is left
    hostname,   \* host name setting
    network,    \* network bringup script
    runparts,   \* runparts directory
    rlimit,     \* global resource limit (nofile): [cur, max]
    env,        \* the supervisor's environment: name -> value, or Unset
    env_list,   \* names noted by parse_env, newest first
    ran,        \* commands run by the parser (mknod, modprobe), in order
    jobs,       \* service_register calls of the latest parse: type, runlevels
    argv,       \* the arguments the kernel hands to PID 1, after argv[0]
    cmdlevel,   \* the runlevel given on the command line, 0 for none
    rescue,     \* "rescue" or "recover" was given on the command line
    runargs,    \* the command handed to run() and what fork, exec and wait
                \* make of it
    runret,     \* what run() returned
    parts,      \* run_parts(): the directory, its sorted listing, the place
                \* of the loop in it, whether a child is being waited for
    files,      \* the configuration files on disk: name -> exists, lines
    loader,     \* conf_reload at work: the files still to parse, and the
                \* calls of parse_conf that have not returned, innermost last
    cgroup_current, \* the group the next record is put in
    regs,       \* the service_register calls of the latest load: file,
                \* line, limits, group
    changes     \* conf_change_list: the files with an inotify event since
                \* the last reload, latest first

vars == <<svc, cond, proc, hupd, runlevel, prevlevel, conf, nin, tpc, halt, request, replies, unread,
          iter, got, filters, conn, finitconf, single, cfglevel, hostname, network, runparts,
          rlimit, env, env_list, ran, jobs, argv, cmdlevel, rescue,
          runargs, runret, parts, files, loader, cgroup_current, regs, changes>>

\* what a client sees of its connection
obs == <<request, replies, unread>>

\* state that only the scenarios of their own sections change
parsed == <<cfglevel, hostname, network, runparts, rlimit, env, env_list, ran, jobs>>
\* the command line, the helpers of the child supervisor, the file tree
tree == <<files, loader, cgroup_current, regs, changes>>
tools == <<argv, cmdlevel, rescue, runargs, runret, parts, tree>>
aux == <<got, filters, conn, finitconf, single, parsed, tools>>
\* the clients that enumerate the registry
IterClients == {1, 2}
NoConn == [ifname |-> "", accepted |-> FALSE]

(***************************************************************************)
(* The supervisor's state as one value, threaded through the helpers.      *)
(***************************************************************************)
Cur == [svc |-> svc, cond |-> cond, proc |-> proc, hupd |-> hupd,
        runlevel |-> runlevel, prevlevel |-> prevlevel, halt |-> halt,
        iter |-> iter]

Commit(S) ==
    /\ svc' = S.svc
    /\ cond' = S.cond
    /\ proc' = S.proc
    /\ hupd' = S.hupd
    /\ runlevel' = S.runlevel
    /\ prevlevel' = S.prevlevel
    /\ halt' = S.halt
    /\ iter' = S.iter

Registered(S, c) == S.svc[c] # NoSvc

(***************************************************************************)
(* Condition store                                                         *)
(***************************************************************************)
cond_set(S, f) == [S EXCEPT !.cond[f] = "ON"]
cond_clear(S, f) == [S EXCEPT !.cond[f] = "OFF"]
cond_get(S, f) == S.cond[f]
\* mark_flux: every fact that is ON becomes FLUX
cond_reload(S) ==
    [S EXCEPT !.cond = [f \in Facts |-> IF S.cond[f] = "ON" THEN "FLUX" ELSE S.cond[f]]]

CondsOn(S, c) ==
    \A i \in 1..Len(S.svc[c].cond) : S.cond[S.svc[c].cond[i]] = "ON"
CondsOff(S, c) ==
    \E i \in 1..Len(S.svc[c].cond) : S.cond[S.svc[c].cond[i]] = "OFF"


(***************************************************************************)
(* Service records (svc.c)                                                 *)
(***************************************************************************)
NewSvc ==
    [state |-> "HALTED", pid |-> 0, type |-> "service", runlevels |-> {},
     cond |-> <<>>, sighup |-> FALSE, forking |-> FALSE, dirty |-> FALSE,
     starting |-> FALSE, removed |-> FALSE, stopreq |-> FALSE,
     restart_cnt |-> 0, line |-> NoLine]

svc_is_daemon(sv) == sv.type = "service"
\* the one-shot types
svc_is_runtask(sv) == sv.type \in {"task", "run", "sysv"}
svc_is_forking(sv) == sv.forking
svc_is_changed(sv) == sv.dirty
svc_is_starting(sv) == sv.starting
svc_is_blocked(sv) == sv.state = "BLOCKED" \/ sv.stopreq

\* operator start: lift a stop request, and release a BLOCKED record
\* with its restart history reset
svc_start(S, c) ==
    LET sv == S.svc[c]
        s1 == [sv EXCEPT !.stopreq = FALSE]
    IN  [S EXCEPT !.svc[c] =
            IF sv.state = "BLOCKED"
            THEN [s1 EXCEPT !.state = "HALTED", !.restart_cnt = 0]
            ELSE s1]

\* operator stop: mark the record for stop, the next step observes it
svc_stop(S, c) == [S EXCEPT !.svc[c].stopreq = TRUE]

svc_mark_dirty(S, c) == [S EXCEPT !.svc[c].dirty = TRUE]

svc_started(S, c) == [S EXCEPT !.svc[c].starting = FALSE]

\* every record is tagged; the sweep clears the tag of what it finds again
svc_mark_dynamic(S) ==
    [S EXCEPT !.svc = [c \in Cmds |->
        IF S.svc[c] = NoSvc THEN NoSvc ELSE [S.svc[c] EXCEPT !.removed = TRUE]]]

(***************************************************************************)
(* Child supervisor                                                        *)
(***************************************************************************)
FreePids(S) == {p \in PIDs : S.proc[p].st = "unused"}
NextPid(S) == CHOOSE p \in FreePids(S) : \A q \in FreePids(S) : p <= q
LiveOf(S, c) == {p \in PIDs : S.proc[p].owner = c /\ S.proc[p].st = "alive"}
UnreapedOf(S, c) == {p \in PIDs : S.proc[p].owner = c /\ S.proc[p].st \in {"alive", "zombie"}}

\* fork+exec for a READY record: the record is RUNNING with the new pid,
\* flagged starting, no longer changed; a non-forking record asserts its
\* own svc/<cmd> fact
service_start(S, c) ==
    LET p == NextPid(S)
        S1 == [S EXCEPT !.proc[p] = [st |-> "alive", owner |-> c],
                        !.svc[c].state = "RUNNING",
                        !.svc[c].pid = p,
                        !.svc[c].starting = TRUE,
                        !.svc[c].dirty = FALSE]
    IN  IF svc_is_forking(S.svc[c]) THEN S1 ELSE cond_set(S1, mkcond(c))

\* the stop signal is sent and the kill deadline armed; the record waits
\* in STOPPING for the exit of its process
service_stop(S, c) == [S EXCEPT !.svc[c].state = "STOPPING"]

\* the reconfigure signal (SIGHUP) is delivered to the running process
service_sighup(S, c) ==
    [S EXCEPT !.hupd = S.hupd \cup (IF S.svc[c].pid \in PIDs THEN {S.svc[c].pid} ELSE {}),
              !.svc[c].dirty = FALSE]

(***************************************************************************)
(* Service state machine: one transition of one record                     *)
(***************************************************************************)
Eligible(S, c) == S.runlevel \in S.svc[c].runlevels
Enabled(S, c) == Eligible(S, c) /\ ~S.svc[c].removed /\ ~S.svc[c].stopreq

StepHalted(S, c) ==
    IF S.svc[c].removed THEN [S EXCEPT !.svc[c] = NoSvc]
    ELSE IF Enabled(S, c) THEN [S EXCEPT !.svc[c].state = "WAITING"]
    ELSE S

StepWaiting(S, c) ==
    IF ~Enabled(S, c) THEN [S EXCEPT !.svc[c].state = "HALTED"]
    ELSE IF CondsOn(S, c) THEN [S EXCEPT !.svc[c].state = "READY"]
    ELSE S

StepReady(S, c) ==
    IF FreePids(S) = {} THEN S ELSE service_start(S, c)

StepRunning(S, c) ==
    IF ~Enabled(S, c) \/ CondsOff(S, c) THEN service_stop(S, c)
    ELSE IF svc_is_changed(S.svc[c])
         THEN IF S.svc[c].sighup THEN service_sighup(S, c) ELSE service_stop(S, c)
         ELSE S

service_step(S, c) ==
    IF ~Registered(S, c) THEN S
    ELSE CASE S.svc[c].state = "HALTED"  -> StepHalted(S, c)
           [] S.svc[c].state = "WAITING" -> StepWaiting(S, c)
           [] S.svc[c].state = "READY"   -> StepReady(S, c)
           [] S.svc[c].state = "RUNNING" -> StepRunning(S, c)
           [] OTHER -> S

RECURSIVE StepFrom(_, _)
StepFrom(S, i) ==
    IF i > Len(CmdOrder) THEN S ELSE StepFrom(service_step(S, CmdOrder[i]), i + 1)

\* one pass over the registry, in registry order
service_step_all(S) == StepFrom(S, 1)


(***************************************************************************)
(* conf.c: condition field, registration, reload                           *)
(***************************************************************************)
\* the stanza has a <...> field at all (cond != NULL)
HasCondField(st) == st.bang \/ Len(st.conds) > 0

\* strncmp(ptr, "svc/", 4): the text after an optional '!' starts with
\* "svc/", that is, the first name of the list is in the svc namespace
StartsWithSvc(st) == Len(st.conds) > 0 /\ st.conds[1][1] = "svc"

\* conf_parse_cond() without the test for a leading '!'
conf_parse_cond_nobang(sv, st) ==
    LET s1 == IF svc_is_daemon(sv) THEN [sv EXCEPT !.sighup = TRUE] ELSE sv
    IN  IF ~HasCondField(st) THEN s1
        ELSE IF StartsWithSvc(st) THEN s1
        ELSE [s1 EXCEPT !.cond = st.conds]

\* conf_parse_cond() without the default that daemons accept SIGHUP
conf_parse_cond_nosighup(sv, st) ==
    LET s1 == [sv EXCEPT !.sighup = FALSE]
    IN  IF ~HasCondField(st) THEN s1
        ELSE IF StartsWithSvc(st) THEN s1
        ELSE [s1 EXCEPT !.cond = st.conds]

conf_parse_cond(sv, st) ==
    LET s1 == IF svc_is_daemon(sv) THEN [sv EXCEPT !.sighup = TRUE] ELSE sv
        s2 == IF st.bang THEN [s1 EXCEPT !.sighup = FALSE] ELSE s1
    IN  IF ~HasCondField(st) THEN s1
        ELSE IF StartsWithSvc(st) THEN s2
        ELSE [s2 EXCEPT !.cond = st.conds]

\* a stanza is matched against the record of its command; a matched record
\* is flagged changed when the stanza differs from the one it was
\* registered with, a new record is inserted flagged changed
service_register(S, c, st) ==
    LET old == S.svc[c]
        base == IF old = NoSvc THEN NewSvc ELSE old
        r1 == [base EXCEPT !.type = st.type,
                           !.runlevels = st.lvls,
                           !.forking = st.forking,
                           !.line = st,
                           !.removed = FALSE,
                           !.dirty = IF old = NoSvc THEN TRUE
                                     ELSE (old.dirty \/ old.line # st)]
    IN  [S EXCEPT !.svc[c] = conf_parse_cond(r1, st)]

RECURSIVE ParseFrom(_, _, _)
ParseFrom(S, file, i) ==
    IF i > Len(CmdOrder) THEN S
    ELSE LET c == CmdOrder[i]
         IN  ParseFrom(IF file[c] = NoLine THEN S ELSE service_register(S, c, file[c]),
                       file, i + 1)

parse_conf(S, file) == ParseFrom(S, file, 1)

\* a record whose condition names svc/<X> is flagged changed when the
\* record of X is
DependsOnChanged(S, c) ==
    \E i \in 1..Len(S.svc[c].cond) : \E x \in Cmds :
        /\ S.svc[c].cond[i] = mkcond(x)
        /\ Registered(S, x)
        /\ svc_is_changed(S.svc[x])

service_update_rdeps(S) ==
    [S EXCEPT !.svc = [c \in Cmds |->
        IF Registered(S, c) /\ DependsOnChanged(S, c)
        THEN [S.svc[c] EXCEPT !.dirty = TRUE]
        ELSE S.svc[c]]]

\* conf_reload() that takes every stanza it reads for a changed one
conf_reload_all_changed(S, file) ==
    LET S1 == service_update_rdeps(parse_conf(svc_mark_dynamic(S), file))
    IN  [S1 EXCEPT !.svc = [c \in Cmds |->
            IF Registered(S1, c) /\ ~S1.svc[c].removed
            THEN [S1.svc[c] EXCEPT !.dirty = TRUE]
            ELSE S1.svc[c]]]

\* conf_reload() that never tags the records
conf_reload_nomark(S, file) ==
    service_update_rdeps(parse_conf(S, file))

conf_reload(S, file) ==
    service_update_rdeps(parse_conf(svc_mark_dynamic(S), file))

(***************************************************************************)
(* pidfile.c                                                               *)
(***************************************************************************)
\* one inotify event on the pidfile of record c; content is what
\* pid_file_read() returns when the handler runs
pidfile_callback(S, c, created, content) ==
    IF ~Registered(S, c) THEN S
    ELSE IF created
         THEN LET S1 == svc_started(S, c)
                  S2 == IF svc_is_forking(S1.svc[c])
                        THEN [S1 EXCEPT !.svc[c].pid = content]
                        ELSE S1
              IN  cond_set(S2, mkcond(c))
         ELSE cond_clear(S, mkcond(c))

Reassert(S, c) ==
    /\ Registered(S, c)
    /\ S.svc[c].state = "RUNNING"
    /\ ~(svc_is_changed(S.svc[c]) \/ svc_is_starting(S.svc[c]))
    /\ cond_get(S, mkcond(c)) # "ON"

\* pidfile_reconf() that steps the records without reasserting any fact
pidfile_reconf_noassert(S) == service_step_all(S)

\* pidfile_reconf() that steps the records first and reasserts afterwards
pidfile_reconf_late(S) ==
    LET S1 == service_step_all(S)
    IN  [S1 EXCEPT !.cond = [f \in Facts |->
            IF \E c \in Cmds : f = mkcond(c) /\ Reassert(S1, c)
            THEN "ON" ELSE S1.cond[f]]]

pidfile_reconf(S) ==
    LET S1 == [S EXCEPT !.cond = [f \in Facts |->
                  IF \E c \in Cmds : f = mkcond(c) /\ Reassert(S, c)
                  THEN "ON" ELSE S.cond[f]]]
    IN  service_step_all(S1)

(***************************************************************************)
(* Reload: mark, sweep, converge                                           *)
(***************************************************************************)
ReloadMark(S) ==
    cond_reload([S EXCEPT !.svc = [c \in Cmds |->
        IF S.svc[c] = NoSvc THEN NoSvc
        ELSE IF S.svc[c].state = "BLOCKED"
             THEN [S.svc[c] EXCEPT !.dirty = FALSE, !.state = "HALTED", !.restart_cnt = 0]
             ELSE [S.svc[c] EXCEPT !.dirty = FALSE]]])

service_reload_dynamic(S, file) ==
    pidfile_reconf(conf_reload(ReloadMark(S), file))

(***************************************************************************)
(* api.c                                                                   *)
(***************************************************************************)
\* start() that pushes a HALTED record to WAITING without the state machine
start_forced(S, c) ==
    IF S.svc[c].state = "HALTED"
    THEN [svc_start(S, c) EXCEPT !.svc[c].state = "WAITING"]
    ELSE service_step(svc_start(S, c), c)

\* start() that pushes a WAITING record to READY without the state machine
start_unconditional(S, c) ==
    IF S.svc[c].state = "WAITING"
    THEN [svc_start(S, c) EXCEPT !.svc[c].state = "READY"]
    ELSE service_step(svc_start(S, c), c)

\* start() that flags the record changed, as restart() does
start_dirty(S, c) == service_step(svc_mark_dirty(svc_start(S, c), c), c)

\* start(): lift what blocks the record and step it
start(S, c) == service_step(svc_start(S, c), c)

stop(S, c) == service_step(svc_stop(S, c), c)

\* restart() that forks the replacement at once
restart_refork(S, c) ==
    IF S.svc[c].state = "RUNNING" /\ FreePids(S) # {}
    THEN service_start(S, c)
    ELSE service_step(svc_mark_dirty(S, c), c)

\* restart() that does not release a blocked record first
restart_noblock(S, c) == service_step(svc_mark_dirty(S, c), c)

\* restart(): release a blocked record, flag it changed, step it
restart(S, c) ==
    LET S1 == IF svc_is_blocked(S.svc[c]) THEN svc_start(S, c) ELSE S
    IN  service_step(svc_mark_dirty(S1, c), c)

\* An event is the text of one token of `initctl emit`, a sequence of
\* units: single characters, or the path of a condition as one unit.
ReloadWord == <<"R", "E", "L", "O", "A", "D">>
Upper == [u \in {"r", "e", "l", "o", "a", "d"} |->
            CASE u = "r" -> "R" [] u = "e" -> "E" [] u = "l" -> "L"
              [] u = "o" -> "O" [] u = "a" -> "A" [] u = "d" -> "D"]
toupper(u) == IF u \in DOMAIN Upper THEN Upper[u] ELSE u
MAX(a, b) == IF a >= b THEN a ELSE b

\* 0 when the first n units of a and b agree, case ignored, or both end
\* before that
RECURSIVE strncasecmp(_, _, _)
strncasecmp(a, b, n) ==
    IF n = 0 \/ (a = << >> /\ b = << >>) THEN 0
    ELSE IF a = << >> \/ b = << >> THEN 1
    ELSE IF toupper(Head(a)) # toupper(Head(b)) THEN 1
    ELSE strncasecmp(Tail(a), Tail(b), n - 1)

\* the fact a condition name in an event stands for
NamedFact(name) ==
    CASE name = <<"usr/x">> -> UsrCond
      [] name = <<"svc/A">> -> mkcond("A")
      [] name = <<"svc/B">> -> mkcond("B")
      [] name = ReloadWord -> WordCond

EventOf(f, minus) ==
    LET path == CASE f = UsrCond -> "usr/x"
                  [] f = mkcond("A") -> "svc/A"
                  [] f = mkcond("B") -> "svc/B"
    IN  <<IF minus THEN "-" ELSE "+", path>>

\* do_handle_event() that runs the callback of a listed event and then
\* goes on to assert the event's name as a fact
do_handle_event_fallthrough(S, file, event) ==
    LET S1 == IF strncasecmp(ReloadWord, event, MAX(Len(ReloadWord), Len(event))) = 0
              THEN service_reload_dynamic(S, file) ELSE S
    IN  IF event[1] = "-" THEN cond_clear(S1, NamedFact(Tail(event)))
        ELSE IF event[1] = "+" THEN cond_set(S1, NamedFact(Tail(event)))
        ELSE cond_set(S1, NamedFact(event))

\* do_handle_event() without the branch for a leading minus
do_handle_event_nominus(S, file, event) ==
    IF strncasecmp(ReloadWord, event, MAX(Len(ReloadWord), Len(event))) = 0
    THEN service_reload_dynamic(S, file)
    ELSE IF event[1] = "-" THEN S
    ELSE IF event[1] = "+" THEN cond_set(S, NamedFact(Tail(event)))
    ELSE cond_set(S, NamedFact(event))

\* a listed event (RELOAD) runs its callback; "+X" and "X" assert a fact,
\* "-X" clears it
do_handle_event(S, file, event) ==
    IF strncasecmp(ReloadWord, event, MAX(Len(ReloadWord), Len(event))) = 0
    THEN service_reload_dynamic(S, file)
    ELSE IF event[1] = "-" THEN cond_clear(S, NamedFact(Tail(event)))
    ELSE IF event[1] = "+" THEN cond_set(S, NamedFact(Tail(event)))
    ELSE cond_set(S, NamedFact(event))

\* the tokens of the data buffer, one event each, in order
RECURSIVE do_handle_emit(_, _, _)
do_handle_emit(S, file, data) ==
    IF data = << >> THEN S
    ELSE do_handle_emit(do_handle_event(S, file, Head(data)), file, Tail(data))

\* the governor: the new level becomes the current one, the old one the
\* previous one, and every record is stepped once; the current level
\* requested again changes nothing
service_runlevel(S, lvl) ==
    IF lvl = S.runlevel THEN S
    ELSE service_step_all([S EXCEPT !.prevlevel = S.runlevel, !.runlevel = lvl])

(***************************************************************************)
(* SIGCHLD                                                                 *)
(***************************************************************************)
\* the record whose stored pid is p, first in registry order
FindByPid(S, p) ==
    LET hits == {i \in 1..Len(CmdOrder) : Registered(S, CmdOrder[i]) /\ S.svc[CmdOrder[i]].pid = p}
    IN  IF hits = {} THEN "none"
        ELSE CmdOrder[CHOOSE i \in hits : \A j \in hits : i <= j]

service_monitor(S, p) ==
    LET S1 == [S EXCEPT !.proc[p].st = "reaped"]
        c == FindByPid(S, p)
    IN  IF c = "none" THEN S1
        ELSE IF S1.svc[c].state = "STOPPING"
             THEN cond_clear([S1 EXCEPT !.svc[c].state = "HALTED", !.svc[c].pid = 0,
                                        !.svc[c].starting = FALSE], mkcond(c))
        ELSE IF S1.svc[c].state = "RUNNING" /\ svc_is_runtask(S1.svc[c])
             THEN cond_clear([S1 EXCEPT !.svc[c].state = "HALTED", !.svc[c].pid = 0,
                                        !.svc[c].starting = FALSE], mkcond(c))
        ELSE IF S1.svc[c].state = "RUNNING"
             THEN IF S1.svc[c].restart_cnt < RespawnMax
                  THEN [S1 EXCEPT !.svc[c].state = "CRASHED", !.svc[c].pid = 0,
                                  !.svc[c].starting = FALSE,
                                  !.svc[c].restart_cnt = S1.svc[c].restart_cnt + 1,
                                  !.proc[p].st = "crashed"]
                  ELSE [S1 EXCEPT !.svc[c].state = "BLOCKED", !.svc[c].pid = 0,
                                  !.svc[c].starting = FALSE,
                                  !.proc[p].st = "crashed"]
        ELSE S1

(***************************************************************************)
(* api.c: one client connection.  The server reads request frames from    *)
(* the accepted socket until a read fails or a frame is malformed, and    *)
(* answers every served frame with ACK or NACK.                           *)
(***************************************************************************)
\* the runlevel byte of a request: a digit, 's'/'S', or anything else
DigitChars == {"0", "1", "2", "3", "4", "5", "6", "7", "8", "9"}
DigitOf(ch) == CHOOSE d \in Levels : ToString(d) = ch

\* INIT_CMD_RUNLVL that stores the previous level itself before it asks
\* the governor
do_runlvl_setprev(S, ch) ==
    LET c1 == IF ch \in {"s", "S"} THEN "1" ELSE ch
    IN  IF c1 \in DigitChars
        THEN LET lvl == DigitOf(c1)
                 S0 == IF lvl = 0 THEN [S EXCEPT !.halt = "SHUT_OFF"] ELSE S
                 S1 == IF lvl = 6 THEN [S0 EXCEPT !.halt = "SHUT_REBOOT"] ELSE S0
             IN  service_runlevel([S1 EXCEPT !.prevlevel = S.runlevel], lvl)
        ELSE S

\* INIT_CMD_RUNLVL that knows 's' and 'S' only and ignores the digits
do_runlvl_single(S, ch) ==
    IF ch \in {"s", "S"} THEN service_runlevel(S, 1) ELSE S

\* INIT_CMD_RUNLVL: 's' and 'S' mean 1; levels 0 and 6 arm power-off and
\* reboot before the governor is asked; other bytes are ignored
do_runlvl(S, ch) ==
    LET c1 == IF ch \in {"s", "S"} THEN "1" ELSE ch
    IN  IF c1 \in DigitChars
        THEN LET lvl == DigitOf(c1)
                 S0 == IF lvl = 0 THEN [S EXCEPT !.halt = "SHUT_OFF"] ELSE S
                 S1 == IF lvl = 6 THEN [S0 EXCEPT !.halt = "SHUT_REBOOT"] ELSE S0
             IN  service_runlevel(S1, lvl)
        ELSE S

\* call() that reports success whether or not the name matched a record
call_noresult(S, cmd, name) ==
    IF name \in Cmds /\ Registered(S, name)
    THEN [S |-> CASE cmd = "START_SVC" -> start(S, name)
                  [] cmd = "STOP_SVC" -> stop(S, name)
                  [] cmd = "RESTART_SVC" -> restart(S, name),
          result |-> 0]
    ELSE [S |-> S, result |-> 0]

\* call(): the job string is looked up and the action runs on the record
\* it names; with no such record the action gets NULL and returns 1
call(S, cmd, name) ==
    IF name \in Cmds /\ Registered(S, name)
    THEN [S |-> CASE cmd = "START_SVC" -> start(S, name)
                  [] cmd = "STOP_SVC" -> stop(S, name)
                  [] cmd = "RESTART_SVC" -> restart(S, name),
          result |-> 0]
    ELSE [S |-> S, result |-> 1]

\* the snapshot send_svc() writes for no record: pid -1
NoRecord == "none"

\* the place in the registry of the first record after place i, 0 for none
NextAfter(S, i) ==
    LET later == {j \in (i + 1)..Len(CmdOrder) : Registered(S, CmdOrder[j])}
    IN  IF later = {} THEN 0 ELSE CHOOSE j \in later : \A k \in later : j <= k

\* svc_iterator(&iter, first): the record the cursor is at, or the first of
\* the registry when first is set; the cursor moves past the record returned
svc_iterator(S, first) ==
    LET at == IF first THEN NextAfter(S, 0) ELSE S.iter
    IN  IF at = 0 THEN [S |-> S, svc |-> NoRecord]
        ELSE [S |-> [S EXCEPT !.iter = NextAfter(S, at)], svc |-> CmdOrder[at]]

\* do_find() by name
do_find(S, name) == IF name \in Cmds /\ Registered(S, name) THEN name ELSE NoRecord

\* the switch on rq.cmd: the new state, the result, whether the server
\* leaves the loop without an ACK or NACK, and the snapshots it has sent
api_request(S, file, rq) ==
    CASE rq.cmd = "RUNLVL" ->
            [S |-> do_runlvl(S, rq.runlevel), result |-> 0, leave |-> FALSE, sent |-> << >>]
      [] rq.cmd = "RELOAD" ->
            [S |-> service_reload_dynamic(S, file), result |-> 0, leave |-> FALSE, sent |-> << >>]
      [] rq.cmd \in {"START_SVC", "STOP_SVC", "RESTART_SVC"} ->
            LET r == call(S, rq.cmd, rq.name)
            IN  [S |-> r.S, result |-> r.result, leave |-> FALSE, sent |-> << >>]
      [] rq.cmd = "EMIT" ->
            [S |-> do_handle_emit(S, file, rq.events), result |-> 0, leave |-> FALSE, sent |-> << >>]
      [] rq.cmd = "ACK" ->
            [S |-> S, result |-> 0, leave |-> TRUE, sent |-> << >>]
      [] rq.cmd = "SVC_ITER" ->
            LET r == svc_iterator(S, rq.runlevel # "")
            IN  [S |-> r.S, result |-> 0, leave |-> TRUE, sent |-> <<r.svc>>]
      [] rq.cmd = "SVC_FIND" ->
            [S |-> S, result |-> 0, leave |-> TRUE, sent |-> <<do_find(S, rq.name)>>]
      [] OTHER ->
            [S |-> S, result |-> 0, leave |-> FALSE, sent |-> << >>]

IsFrame(r) == r.kind = "frame"
RECURSIVE FramesIn(_)
FramesIn(reads) ==
    IF reads = << >> THEN 0
    ELSE (IF IsFrame(Head(reads)) THEN 1 ELSE 0) + FramesIn(Tail(reads))

Closed(S, out, rest) == [S |-> S, replies |-> out, unread |-> FramesIn(rest)]

\* the read loop that serves a frame without looking at magic and length
RECURSIVE api_loop_nocheck(_, _, _, _)
api_loop_nocheck(S, file, reads, out) ==
    IF reads = << >> THEN Closed(S, out, << >>)
    ELSE LET r == Head(reads)
             rest == Tail(reads)
         IN  IF r.kind = "EINTR" THEN api_loop_nocheck(S, file, rest, out)
             ELSE IF r.kind # "frame" THEN Closed(S, out, rest)
             ELSE LET h == api_request(S, file, r)
                  IN  IF h.leave THEN Closed(h.S, out \o h.sent, rest)
                      ELSE api_loop_nocheck(h.S, file, rest,
                               Append(out, IF h.result # 0 THEN "NACK" ELSE "ACK"))

\* the read loop that closes the connection on EINTR as on any other error
RECURSIVE api_loop_nointr(_, _, _, _)
api_loop_nointr(S, file, reads, out) ==
    IF reads = << >> THEN Closed(S, out, << >>)
    ELSE LET r == Head(reads)
             rest == Tail(reads)
         IN  IF r.kind # "frame" THEN Closed(S, out, rest)
             ELSE IF r.magic # "INIT_MAGIC" \/ r.len # "sizeof" THEN Closed(S, out, rest)
             ELSE LET h == api_request(S, file, r)
                  IN  IF h.leave THEN Closed(h.S, out \o h.sent, rest)
                      ELSE api_loop_nointr(h.S, file, rest,
                               Append(out, IF h.result # 0 THEN "NACK" ELSE "ACK"))

\* while (1): reads is what the successive read() calls return; after the
\* last one the client has closed its end.  EINTR reads again; EAGAIN, any
\* other error, a short frame and a bad magic leave the loop.
RECURSIVE api_loop(_, _, _, _)
api_loop(S, file, reads, out) ==
    IF reads = << >> THEN Closed(S, out, << >>)
    ELSE LET r == Head(reads)
             rest == Tail(reads)
         IN  IF r.kind = "EINTR" THEN api_loop(S, file, rest, out)
             ELSE IF r.kind # "frame" THEN Closed(S, out, rest)
             ELSE IF r.magic # "INIT_MAGIC" \/ r.len # "sizeof" THEN Closed(S, out, rest)
             ELSE LET h == api_request(S, file, r)
                  IN  IF h.leave THEN Closed(h.S, out \o h.sent, rest)
                      ELSE api_loop(h.S, file, rest,
                               Append(out, IF h.result # 0 THEN "NACK" ELSE "ACK"))

\* a server that closes the connection after the first frame it has read
api_cb_once(S, file, reads) ==
    LET first == {i \in 1..Len(reads) : reads[i].kind # "EINTR"}
        k == IF first = {} THEN Len(reads) ELSE CHOOSE i \in first : \A j \in first : i <= j
        r == api_loop(S, file, SubSeq(reads, 1, k), << >>)
    IN  [r EXCEPT !.unread = FramesIn(SubSeq(reads, k + 1, Len(reads)))]
api_cb_nocheck(S, file, reads) == api_loop_nocheck(S, file, reads, << >>)
api_cb_nointr(S, file, reads) == api_loop_nointr(S, file, reads, << >>)

\* accept(), the loop, close()
api_cb(S, file, reads) == api_loop(S, file, reads, << >>)

(***************************************************************************)
(* conf.c: the lines of finit.conf.  A line is its first word, the         *)
(* runlevel field of a stanza as the characters from its bracket on, and   *)
(* the words after the first.                                              *)
(***************************************************************************)
\* the built-in default level from configure
RUNLEVEL == 2
RLIM_INFINITY == -1
\* the largest limit strtonum lets through (2 << 31 in the code) lies beyond
\* every numeral of the model
RLIM_HIGHEST == 2147483647
NoField == << >>
ConfLine(cmd, field, arg) == [cmd |-> cmd, field |-> field, arg |-> arg]

Numerals == DigitChars \cup {"10", "1024"}
NumeralValue(tok) ==
    CASE tok = "10" -> 10
      [] tok = "1024" -> 1024
      [] OTHER -> DigitOf(tok)
\* strtonum(): 0 and an error for what is no number or lies outside the range
strtonum(tok, minval, maxval) ==
    IF tok \notin Numerals THEN [val |-> 0, err |-> "invalid"]
    ELSE IF NumeralValue(tok) < minval THEN [val |-> 0, err |-> "too small"]
    ELSE IF NumeralValue(tok) > maxval THEN [val |-> 0, err |-> "too large"]
    ELSE [val |-> NumeralValue(tok), err |-> ""]

\* the character codes conf_parse_runlevels computes with
Ord(ch) ==
    CASE ch \in DigitChars -> 48 + DigitOf(ch)
      [] ch = "!" -> 33
      [] ch = "-" -> 45
      [] ch = "S" -> 83
      [] ch = "[" -> 91
      [] ch = "]" -> 93
      [] ch = "s" -> 115
      [] ch = "x" -> 120

DefaultField == <<"[", "2", "3", "4", "]">>

\* the loop of conf_parse_runlevels from character i on; the mask is the set
\* of its bits
RECURSIVE RunlevelsFrom(_, _, _, _)
RunlevelsFrom(f, i, not, bitmask) ==
    IF i > Len(f) \/ f[i] = "]" THEN bitmask
    ELSE IF f[i] = "!" THEN RunlevelsFrom(f, i + 1, TRUE, 1..9)
    ELSE LET lvl == IF f[i] \in {"s", "S"} THEN "0" ELSE f[i]
             level == Ord(lvl) - Ord("0")
         IN  IF level > 9 \/ level < 0 THEN RunlevelsFrom(f, i + 1, not, bitmask)
             ELSE RunlevelsFrom(f, i + 1, not,
                                IF not THEN bitmask \ {level} ELSE bitmask \cup {level})

\* conf_parse_runlevels() with S and s for level 1 and the complement taken
\* within the levels 1..9 without 6
RECURSIVE RunlevelsFrom_single(_, _, _, _)
RunlevelsFrom_single(f, i, not, bitmask) ==
    IF i > Len(f) \/ f[i] = "]" THEN bitmask
    ELSE IF f[i] = "!" THEN RunlevelsFrom_single(f, i + 1, TRUE, (1..9) \ {6})
    ELSE LET lvl == IF f[i] \in {"s", "S"} THEN "1" ELSE f[i]
             level == Ord(lvl) - Ord("0")
         IN  IF level > 9 \/ level < 0 THEN RunlevelsFrom_single(f, i + 1, not, bitmask)
             ELSE RunlevelsFrom_single(f, i + 1, not,
                                IF not THEN bitmask \ {level} ELSE bitmask \cup {level})
conf_parse_runlevels_single(runlevels) ==
    RunlevelsFrom_single(IF runlevels = NoField THEN DefaultField ELSE runlevels, 2, FALSE, {})

\* i starts at 1: the opening bracket is not looked at
conf_parse_runlevels(runlevels) ==
    RunlevelsFrom(IF runlevels = NoField THEN DefaultField ELSE runlevels, 2, FALSE, {})

\* the parser's globals as one value
CurG == [runlevel |-> runlevel, single |-> single, cfglevel |-> cfglevel,
         hostname |-> hostname, network |-> network, runparts |-> runparts,
         rlimit |-> rlimit, env |-> env, env_list |-> env_list, ran |-> ran,
         jobs |-> jobs]

CommitG(G) ==
    /\ cfglevel' = G.cfglevel
    /\ hostname' = G.hostname
    /\ network' = G.network
    /\ runparts' = G.runparts
    /\ rlimit' = G.rlimit
    /\ env' = G.env
    /\ env_list' = G.env_list
    /\ ran' = G.ran
    /\ jobs' = G.jobs

BOOTSTRAP(G) == G.runlevel = 0

\* the environment is a set of <<name, value>>, one per name
setenv(E, name, val) == {p \in E : p[1] # name} \cup {<<name, val>>}
unsetenv(E, name) == {p \in E : p[1] # name}
IsSet(E, name) == \E p \in E : p[1] = name
getenv(E, name) == (CHOOSE p \in E : p[1] = name)[2]

StdEnv == {<<<<"PATH">>, <<"_PATH_STDPATH">>>>, <<<<"SHELL">>, <<"_PATH_BSHELL">>>>,
           <<<<"LOGNAME">>, <<"root">>>>, <<<<"USER">>, <<"root">>>>}
StdNames == {p[1] : p \in StdEnv}

RECURSIVE UnsetAll(_, _)
UnsetAll(E, names) ==
    IF names = << >> THEN E ELSE UnsetAll(unsetenv(E, Head(names)), Tail(names))

\* conf_reset_env() that forgets the noted names and unsets nothing
conf_reset_env_keep(G) ==
    [G EXCEPT !.env = {p \in G.env : p[1] \notin StdNames} \cup StdEnv,
              !.env_list = << >>]

\* every noted name is unset and forgotten; PATH, SHELL, LOGNAME and USER
\* are set to their defaults
conf_reset_env(G) ==
    [G EXCEPT !.env = {p \in UnsetAll(G.env, G.env_list) : p[1] \notin StdNames} \cup StdEnv,
              !.env_list = << >>]

Quotes == {"\"", "'"}
\* the words of a line as parse_env sees it
Words(line) == <<line.cmd>> \o line.arg
\* a line without '=' is left alone; otherwise what precedes the first '='
\* is the name and what follows it, unquoted, the value; the name is noted
parse_env(G, line) ==
    LET w == Words(line)
        eqs == {i \in 1..Len(w) : w[i] = "="}
    IN  IF eqs = {} THEN G
        ELSE LET e == CHOOSE i \in eqs : \A j \in eqs : i <= j
                 key == SubSeq(w, 1, e - 1)
                 raw == SubSeq(w, e + 1, Len(w))
                 val == IF raw # << >> /\ raw[1] \in Quotes /\ raw[Len(raw)] = raw[1]
                        THEN SubSeq(raw, 2, Len(raw) - 1) ELSE raw
             IN  [G EXCEPT !.env = setenv(@, key, val), !.env_list = <<key>> \o @]

run_interactive(G, cmd) == [G EXCEPT !.ran = Append(@, cmd)]

kmod_load(G, mod) ==
    IF G.runlevel # 0 THEN G ELSE run_interactive(G, <<"modprobe">> \o mod)

\* parse_static() that takes the runlevel directive outside bootstrap too
parse_static_anytime(G, line) ==
    IF BOOTSTRAP(G) /\ line.cmd \in {"host", "hostname"}
    THEN [G |-> [G EXCEPT !.hostname = line.arg], rc |-> 0]
    ELSE IF BOOTSTRAP(G) /\ line.cmd = "mknod"
    THEN [G |-> run_interactive(G, <<"mknod">> \o line.arg), rc |-> 0]
    ELSE IF BOOTSTRAP(G) /\ line.cmd = "module"
    THEN [G |-> kmod_load(G, line.arg), rc |-> 0]
    ELSE IF BOOTSTRAP(G) /\ line.cmd = "network"
    THEN [G |-> [G EXCEPT !.network = line.arg], rc |-> 0]
    ELSE IF BOOTSTRAP(G) /\ line.cmd = "runparts"
    THEN [G |-> [G EXCEPT !.runparts = line.arg], rc |-> 0]
    ELSE IF line.cmd = "runlevel"
    THEN LET n == strtonum(IF line.arg = << >> THEN "" ELSE line.arg[1], 1, 9)
             lvl == IF n.err # "" THEN RUNLEVEL ELSE n.val
         IN  [G |-> [G EXCEPT !.cfglevel = IF lvl < 1 \/ lvl > 9 \/ lvl = 6 THEN 2 ELSE lvl],
              rc |-> 0]
    ELSE [G |-> G, rc |-> 1]

\* parse_static() without the fallback for a level out of range
parse_static_nofallback(G, line) ==
    IF BOOTSTRAP(G) /\ line.cmd \in {"host", "hostname"}
    THEN [G |-> [G EXCEPT !.hostname = line.arg], rc |-> 0]
    ELSE IF BOOTSTRAP(G) /\ line.cmd = "mknod"
    THEN [G |-> run_interactive(G, <<"mknod">> \o line.arg), rc |-> 0]
    ELSE IF BOOTSTRAP(G) /\ line.cmd = "module"
    THEN [G |-> kmod_load(G, line.arg), rc |-> 0]
    ELSE IF BOOTSTRAP(G) /\ line.cmd = "network"
    THEN [G |-> [G EXCEPT !.network = line.arg], rc |-> 0]
    ELSE IF BOOTSTRAP(G) /\ line.cmd = "runparts"
    THEN [G |-> [G EXCEPT !.runparts = line.arg], rc |-> 0]
    ELSE IF BOOTSTRAP(G) /\ line.cmd = "runlevel"
    THEN LET n == strtonum(IF line.arg = << >> THEN "" ELSE line.arg[1], 0, 9)
         IN  [G |-> [G EXCEPT !.cfglevel = IF n.err # "" THEN RUNLEVEL ELSE n.val], rc |-> 0]
    ELSE [G |-> G, rc |-> 1]

\* the directives of parse_static; 0: the line is dealt with
parse_static(G, line) ==
    IF BOOTSTRAP(G) /\ line.cmd \in {"host", "hostname"}
    THEN [G |-> [G EXCEPT !.hostname = line.arg], rc |-> 0]
    ELSE IF BOOTSTRAP(G) /\ line.cmd = "mknod"
    THEN [G |-> run_interactive(G, <<"mknod">> \o line.arg), rc |-> 0]
    ELSE IF BOOTSTRAP(G) /\ line.cmd = "module"
    THEN [G |-> kmod_load(G, line.arg), rc |-> 0]
    ELSE IF BOOTSTRAP(G) /\ line.cmd = "network"
    THEN [G |-> [G EXCEPT !.network = line.arg], rc |-> 0]
    ELSE IF BOOTSTRAP(G) /\ line.cmd = "runparts"
    THEN [G |-> [G EXCEPT !.runparts = line.arg], rc |-> 0]
    ELSE IF BOOTSTRAP(G) /\ line.cmd = "runlevel"
    THEN LET n == strtonum(IF line.arg = << >> THEN "" ELSE line.arg[1], 1, 9)
             lvl == IF n.err # "" THEN RUNLEVEL ELSE n.val
         IN  [G |-> [G EXCEPT !.cfglevel = IF lvl < 1 \/ lvl > 9 \/ lvl = 6 THEN 2 ELSE lvl],
              rc |-> 0]
    ELSE [G |-> G, rc |-> 1]

str2rlim(name) == IF name = "nofile" THEN 7 ELSE -1

\* rlimit <hard|soft> RESOURCE LIMIT, or rlimit RESOURCE LIMIT; a line that
\* does not parse changes nothing
conf_parse_rlimit(G, arg) ==
    IF Len(arg) < 2 THEN G
    ELSE LET three == Len(arg) >= 3
             level == IF three THEN arg[1] ELSE "both"
             limit == IF three THEN arg[2] ELSE arg[1]
             val == IF three THEN arg[3] ELSE arg[2]
             n == strtonum(val, 0, RLIM_HIGHEST)
             cfg == IF val \in {"unlimited", "infinity"} THEN RLIM_INFINITY ELSE n.val
         IN  IF str2rlim(limit) < 0 THEN G
             ELSE IF val \notin {"unlimited", "infinity"} /\ n.err # "" THEN G
             ELSE CASE level = "soft" -> [G EXCEPT !.rlimit.cur = cfg]
                    [] level = "hard" -> [G EXCEPT !.rlimit.max = cfg]
                    [] level = "both" -> [G EXCEPT !.rlimit = [cur |-> cfg, max |-> cfg]]
                    [] OTHER -> G

JobTypes == {"service", "task", "run"}
\* service_register(): the record gets the runlevels of the stanza's field
service_register_line(G, line) ==
    [G EXCEPT !.jobs = Append(@, [type |-> line.cmd,
                                  runlevels |-> conf_parse_runlevels(line.field)])]

parse_dynamic(G, line) ==
    IF line.cmd \in JobTypes THEN [G |-> service_register_line(G, line), rc |-> 0]
    ELSE IF line.cmd = "rlimit" THEN [G |-> conf_parse_rlimit(G, line.arg), rc |-> 0]
    ELSE [G |-> G, rc |-> 1]

\* one turn of the loop of parse_conf
parse_line(G, line) ==
    IF line.cmd = "#" THEN G
    ELSE LET st == parse_static(G, line)
         IN  IF st.rc = 0 THEN st.G
             ELSE LET dy == parse_dynamic(G, line)
                  IN  IF dy.rc = 0 THEN dy.G ELSE parse_env(G, line)

\* a parser that gives up the file at the first line nothing deals with
RECURSIVE parse_lines_abort(_, _)
parse_lines_abort(G, lines) ==
    IF lines = << >> THEN G
    ELSE LET line == Head(lines)
             dealt == \/ line.cmd = "#"
                      \/ parse_static(G, line).rc = 0
                      \/ parse_dynamic(G, line).rc = 0
                      \/ \E i \in 1..Len(Words(line)) : Words(line)[i] = "="
         IN  IF dealt THEN parse_lines_abort(parse_line(G, line), Tail(lines)) ELSE G

RECURSIVE parse_lines(_, _)
parse_lines(G, lines) ==
    IF lines = << >> THEN G ELSE parse_lines(parse_line(G, Head(lines)), Tail(lines))

InitialRlimit == [cur |-> 256, max |-> 4096]

\* conf_reload(), the part that reads finit.conf: the environment and the
\* limits are reset, the lines are parsed, "single" overrides the level
conf_reload_globals(G, lines) ==
    LET G1 == [conf_reset_env(G) EXCEPT !.rlimit = InitialRlimit, !.jobs = << >>]
        G2 == parse_lines(G1, lines)
    IN  IF BOOTSTRAP(G2) /\ G2.single THEN [G2 EXCEPT !.cfglevel = 1] ELSE G2

\* the environment the kernel hands to PID 1
BootEnv == {<<<<"TERM">>, <<"linux">>>>}

\* nothing on the command line
CmdlineInit ==
    /\ argv = << >>
    /\ cmdlevel = 0
    /\ rescue = FALSE

\* an outcome of a child: how it ended, its exit code or signal
Ended(kind, code, core) == [kind |-> kind, code |-> code, core |-> core]
\* a call of run(): the command, and what the system makes of it
RunCall(cmd, strdup, fork, exec, wait, child) ==
    [cmd |-> cmd, strdup |-> strdup, fork |-> fork, exec |-> exec, wait |-> wait,
     child |-> child]
\* run() has not been called
RunInit ==
    /\ runargs = RunCall(<< >>, TRUE, TRUE, TRUE, TRUE, Ended("exit", 0, FALSE))
    /\ runret = 0

\* run_parts() has not been called
PartsInit == parts = [dir |-> << >>, list |-> << >>, i |-> 0, child |-> FALSE]

\* no file tree, nothing being loaded
NoFiles == [f \in {"finit.conf", "a.conf", "b.conf", "x.inc"} |-> [exists |-> FALSE, lines |-> << >>]]
TreeInit ==
    /\ files = NoFiles
    /\ loader = [todo |-> << >>, stack |-> << >>, n |-> 0]
    /\ cgroup_current = ""
    /\ regs = << >>
    /\ changes = << >>

ToolsInit == CmdlineInit /\ RunInit /\ PartsInit /\ TreeInit

AuxInit ==
    /\ got = [k \in IterClients |-> << >>]
    /\ filters = << >>
    /\ conn = NoConn
    /\ finitconf = << >>
    /\ single = FALSE
    /\ cfglevel = RUNLEVEL
    /\ hostname = << >>
    /\ network = << >>
    /\ runparts = << >>
    /\ rlimit = InitialRlimit
    /\ env = BootEnv
    /\ env_list = << >>
    /\ ran = << >>
    /\ jobs = << >>
    /\ ToolsInit

(***************************************************************************)
(* Initial state: the supervisor has left bootstrap for runlevel 2, the    *)
(* configuration is empty and nothing is registered or running.            *)
(***************************************************************************)
Init ==
    /\ svc = [c \in Cmds |-> NoSvc]
    /\ cond = [f \in Facts |-> "OFF"]
    /\ proc = [p \in PIDs |-> [st |-> "unused", owner |-> "none"]]
    /\ hupd = {}
    /\ runlevel = 2
    /\ prevlevel = 0
    /\ conf = [c \in Cmds |-> NoLine]
    /\ nin = 0
    /\ tpc = "off"
    /\ halt = "SHUT_DEFAULT"
    /\ iter = 0
    /\ AuxInit
    /\ request = << >>
    /\ replies = << >>
    /\ unread = 0

(***************************************************************************)
(* Events                                                                  *)
(***************************************************************************)
\* an external input is delivered
Input == nin < MaxInputs /\ nin' = nin + 1

\* an editor rewrites the line of command c in the configuration file
WriteConf(c, st) ==
    /\ Input
    /\ st # conf[c]
    /\ conf' = [conf EXCEPT ![c] = st]
    /\ UNCHANGED <<obs, aux, svc, cond, proc, hupd, runlevel, prevlevel, halt, iter, tpc>>

\* SIGHUP, `initctl reload` or the RELOAD event
Reload ==
    /\ Input
    /\ Commit(service_reload_dynamic(Cur, conf))
    /\ UNCHANGED <<obs, aux, conf, tpc>>

ApiStart(c) ==
    /\ Input
    /\ Registered(Cur, c)
    /\ Commit(start(Cur, c))
    /\ UNCHANGED <<obs, aux, conf, tpc>>

ApiStop(c) ==
    /\ Input
    /\ Registered(Cur, c)
    /\ Commit(stop(Cur, c))
    /\ UNCHANGED <<obs, aux, conf, tpc>>

ApiRestart(c) ==
    /\ Input
    /\ Registered(Cur, c)
    /\ Commit(restart(Cur, c))
    /\ UNCHANGED <<obs, aux, conf, tpc>>

ApiEmit(f, minus) ==
    /\ Input
    /\ Commit(do_handle_emit(Cur, conf, <<EventOf(f, minus)>>))
    /\ UNCHANGED <<obs, aux, conf, tpc>>

ApiRunlevel(lvl) ==
    /\ Input
    /\ Commit(do_runlvl(Cur, ToString(lvl)))
    /\ UNCHANGED <<obs, aux, conf, tpc>>

\* what a pidfile of record c can hold: nothing readable, or the pid of a
\* process that was forked for c
PidfileContents(c) == {0} \cup {p \in PIDs : proc[p].owner = c}

PidfileEvent(c, created, content) ==
    /\ Input
    /\ Registered(Cur, c)
    /\ Commit(pidfile_callback(Cur, c, created, content))
    /\ UNCHANGED <<obs, aux, conf, tpc>>

\* a child exits, by itself or because of a signal
ProcExit(p) ==
    /\ Input
    /\ proc[p].st = "alive"
    /\ proc' = [proc EXCEPT ![p].st = "zombie"]
    /\ UNCHANGED <<obs, aux, svc, cond, hupd, runlevel, prevlevel, halt, iter, conf, tpc>>

\* SIGCHLD: waitpid() collects p
Reap(p) ==
    /\ proc[p].st = "zombie"
    /\ Commit(service_monitor(Cur, p))
    /\ UNCHANGED <<obs, aux, conf, nin, tpc>>

\* a scheduled step of the state machine of record c
StepTick(c) ==
    /\ service_step(Cur, c) # Cur
    /\ Commit(service_step(Cur, c))
    /\ UNCHANGED <<obs, aux, conf, nin, tpc>>

\* a backoff timer that gives the record up
BackoffTimer_blocks(c) ==
    /\ Registered(Cur, c)
    /\ svc[c].state = "CRASHED"
    /\ svc' = [svc EXCEPT ![c].state = "BLOCKED"]
    /\ UNCHANGED <<obs, aux, cond, proc, hupd, runlevel, prevlevel, halt, iter, conf, nin, tpc>>

\* the backoff timer of a CRASHED record fires
BackoffTimer(c) ==
    /\ Registered(Cur, c)
    /\ svc[c].state = "CRASHED"
    /\ svc' = [svc EXCEPT ![c].state = "WAITING"]
    /\ UNCHANGED <<obs, aux, cond, proc, hupd, runlevel, prevlevel, halt, iter, conf, nin, tpc>>

\* the kill deadline of a STOPPING record expires: SIGKILL
KillTimer(c) ==
    /\ Registered(Cur, c)
    /\ svc[c].state = "STOPPING"
    /\ svc[c].pid \in PIDs
    /\ proc[svc[c].pid].st = "alive"
    /\ proc' = [proc EXCEPT ![svc[c].pid].st = "zombie"]
    /\ UNCHANGED <<obs, aux, svc, cond, hupd, runlevel, prevlevel, halt, iter, conf, nin, tpc>>

Next ==
    \/ \E c \in Cmds : \E st \in StanzaChoices(c) \cup {NoLine} : WriteConf(c, st)
    \/ Reload
    \/ \E c \in Cmds : ApiStart(c)
    \/ \E c \in Cmds : ApiStop(c)
    \/ \E c \in Cmds : ApiRestart(c)
    \/ \E f \in EmitFacts : \E minus \in BOOLEAN : ApiEmit(f, minus)
    \/ \E lvl \in LevelInputs : ApiRunlevel(lvl)
    \/ \E c \in Cmds : \E created \in BOOLEAN : \E content \in PidfileContents(c) :
          PidfileEvent(c, created, content)
    \/ \E p \in PIDs : ProcExit(p)
    \/ \E p \in PIDs : Reap(p)
    \/ \E c \in Cmds : StepTick(c)
    \/ \E c \in Cmds : BackoffTimer(c)
    \/ \E c \in Cmds : KillTimer(c)

Spec == Init /\ [][Next]_vars


(***************************************************************************)
(* The add/remove test: the script writes one service line, sends SIGHUP,  *)
(* waits for one child, empties the file, sends SIGHUP, waits for none.    *)
(* tpc is the position of the script.  The service does not exit on its    *)
(* own; pidfile events arrive as they may.                                 *)
(***************************************************************************)
TestCmd == "A"
TestLines == {st \in StanzaChoices(TestCmd) : st.lvls = {2, 3, 4, 5}}

InitDyn ==
    /\ svc = [c \in Cmds |-> NoSvc]
    /\ cond = [f \in Facts |-> "OFF"]
    /\ proc = [p \in PIDs |-> [st |-> "unused", owner |-> "none"]]
    /\ hupd = {}
    /\ runlevel \in {2, 3, 4, 5}
    /\ prevlevel = 0
    /\ conf = [c \in Cmds |-> NoLine]
    /\ nin = 0
    /\ tpc = "add"
    /\ halt = "SHUT_DEFAULT"
    /\ iter = 0
    /\ AuxInit
    /\ request = << >>
    /\ replies = << >>
    /\ unread = 0

\* echo 'service [2345] ...' > $FINIT_CONF
TAdd(st) ==
    /\ tpc = "add"
    /\ conf' = [conf EXCEPT ![TestCmd] = st]
    /\ tpc' = "hup1"
    /\ UNCHANGED <<obs, aux, svc, cond, proc, hupd, runlevel, prevlevel, halt, iter, nin>>

\* kill -SIGHUP 1
THup ==
    /\ tpc \in {"hup1", "hup2"}
    /\ Commit(service_reload_dynamic(Cur, conf))
    /\ tpc' = IF tpc = "hup1" THEN "wait1" ELSE "wait2"
    /\ UNCHANGED <<obs, aux, conf, nin>>

\* retry 'assert_num_children 1' succeeds
TAssertOne ==
    /\ tpc = "wait1"
    /\ Cardinality(LiveOf(Cur, TestCmd)) = 1
    /\ tpc' = "remove"
    /\ UNCHANGED <<obs, aux, svc, cond, proc, hupd, runlevel, prevlevel, halt, iter, conf, nin>>

\* echo > $FINIT_CONF
TRemove ==
    /\ tpc = "remove"
    /\ conf' = [conf EXCEPT ![TestCmd] = NoLine]
    /\ tpc' = "hup2"
    /\ UNCHANGED <<obs, aux, svc, cond, proc, hupd, runlevel, prevlevel, halt, iter, nin>>

\* retry 'assert_num_children 0' succeeds
TAssertNone ==
    /\ tpc = "wait2"
    /\ UnreapedOf(Cur, TestCmd) = {}
    /\ tpc' = "done"
    /\ UNCHANGED <<obs, aux, svc, cond, proc, hupd, runlevel, prevlevel, halt, iter, conf, nin>>

NextDyn ==
    \/ \E st \in TestLines : TAdd(st)
    \/ THup
    \/ TAssertOne
    \/ TRemove
    \/ TAssertNone
    \/ \E created \in BOOLEAN : \E content \in PidfileContents(TestCmd) :
            PidfileEvent(TestCmd, created, content)
    \/ \E p \in PIDs : Reap(p)
    \/ StepTick(TestCmd)
    \/ KillTimer(TestCmd)

\* the main loop runs every scheduled step, collects every exited child and
\* lets the kill deadline expire; the script runs on
SpecDyn ==
    /\ InitDyn
    /\ [][NextDyn]_vars
    /\ WF_vars(StepTick(TestCmd))
    /\ WF_vars(KillTimer(TestCmd))
    /\ \A p \in PIDs : WF_vars(Reap(p))
    /\ WF_vars(TAssertOne \/ TRemove \/ TAssertNone \/ THup \/ \E st \in TestLines : TAdd(st))

(***************************************************************************)
(* The control socket: the supervisor has loaded a configuration with a   *)
(* plain service A and a forking service B that waits for <!usr/x,svc/A>; *)
(* clients connect and send frames, processes exit and are reaped, timers *)
(* fire.  The file on disk is not edited.                                 *)
(***************************************************************************)
Outcome(kind, magic, len, cmd, ch, name, events) ==
    [kind |-> kind, magic |-> magic, len |-> len, cmd |-> cmd,
     runlevel |-> ch, name |-> name, events |-> events]
Failed(kind) == Outcome(kind, "", "", "", "", "", << >>)
Frame(cmd, ch, name, events) ==
    Outcome("frame", "INIT_MAGIC", "sizeof", cmd, ch, name, events)

\* a name that matches no record
NoName == "Z"
ApiNames == {"A", "B", NoName}
RunlvlBytes == {"0", "2", "6", "S", "x"}
ApiEvents == {ReloadWord, <<"r", "e", "l", "o", "a", "d">>, <<"+">> \o ReloadWord,
              <<"+", "usr/x">>, <<"-", "usr/x">>}

ValidFrames ==
    {Frame("RUNLVL", ch, "", << >>) : ch \in RunlvlBytes}
    \cup {Frame(cmd, "", n, << >>) : cmd \in {"START_SVC", "STOP_SVC", "RESTART_SVC"},
                                      n \in ApiNames}
    \cup {Frame("EMIT", "", "", <<e>>) : e \in ApiEvents}
    \cup {Frame(cmd, "", "", << >>) : cmd \in {"RELOAD", "GET_RUNLEVEL", "ACK", "DEBUG"}}
    \cup {Frame("SVC_FIND", "", n, << >>) : n \in {"A", NoName}}
BadFrames ==
    {[f EXCEPT !.magic = "other"] : f \in {Frame("RELOAD", "", "", << >>), Frame("RUNLVL", "6", "", << >>)}}
    \cup {[f EXCEPT !.len = "short"] : f \in {Frame("STOP_SVC", "", "A", << >>), Frame("EMIT", "", "", <<<<"+", "usr/x">>>>)}}
ReadErrors == {Failed("EINTR"), Failed("EAGAIN"), Failed("EIO")}
SecondFrames ==
    {Frame("START_SVC", "", n, << >>) : n \in ApiNames}
    \cup {Frame("RELOAD", "", "", << >>), Frame("RUNLVL", "6", "", << >>)}

\* emit +X followed by emit -X
EmitPair(path) == <<Frame("EMIT", "", "", <<<<"+", path>>>>), Frame("EMIT", "", "", <<<<"-", path>>>>)>>
EmitPaths == {"usr/x", "svc/A"}

\* what the reads of one connection return: one frame or failure, or a
\* failure or frame followed by a second frame
ApiReads ==
    {<<r>> : r \in ValidFrames \cup BadFrames \cup ReadErrors}
    \cup {<<r, f>> : r \in BadFrames \cup ReadErrors \cup {Frame("EMIT", "", "", <<<<"-", "usr/x">>>>)},
                     f \in SecondFrames}
    \cup {EmitPair(path) : path \in EmitPaths}
    \cup {<<Frame("SVC_FIND", "", "B", << >>), Frame("STOP_SVC", "", "B", << >>)>>,
          <<Frame("SVC_ITER", "first", "", << >>), Frame("STOP_SVC", "", "A", << >>)>>}

ApiConf ==
    [c \in Cmds |->
        CASE c = "A" -> Stanza("service", {2, 3, 4, 5}, FALSE, << >>, FALSE, 0)
          [] c = "B" -> Stanza("service", {2, 3}, TRUE, <<UsrCond, mkcond("A")>>, TRUE, 0)
          [] OTHER -> NoLine]

BootState ==
    [svc |-> [c \in Cmds |-> NoSvc],
     cond |-> [f \in Facts |-> "OFF"],
     proc |-> [p \in PIDs |-> [st |-> "unused", owner |-> "none"]],
     hupd |-> {}, runlevel |-> 2, prevlevel |-> 0, halt |-> "SHUT_DEFAULT",
     iter |-> 0]

InitApi ==
    /\ conf = ApiConf
    /\ LET S == service_reload_dynamic(BootState, ApiConf)
       IN  /\ svc = S.svc /\ cond = S.cond /\ proc = S.proc /\ hupd = S.hupd
           /\ runlevel = S.runlevel /\ prevlevel = S.prevlevel /\ halt = S.halt
           /\ iter = S.iter
    /\ AuxInit
    /\ nin = 0
    /\ tpc = "off"
    /\ request = << >>
    /\ replies = << >>
    /\ unread = 0

\* a client connects and the server runs api_cb on what it reads
ApiConn(reads) ==
    /\ Input
    /\ LET r == api_cb(Cur, conf, reads)
       IN  /\ Commit(r.S)
           /\ request' = reads
           /\ replies' = r.replies
           /\ unread' = r.unread
    /\ UNCHANGED <<aux, conf, tpc>>

\* SIGHUP delivered to PID 1
Sighup ==
    /\ Input
    /\ Commit(service_reload_dynamic(Cur, conf))
    /\ UNCHANGED <<obs, aux, conf, tpc>>

\* the clients and the outside world act MaxApiInputs times at most
ApiInput == nin < MaxApiInputs

NextApi ==
    \/ \E reads \in ApiReads : ApiInput /\ ApiConn(reads)
    \/ ApiInput /\ Sighup
    \/ \E p \in PIDs : ApiInput /\ ProcExit(p)
    \/ \E p \in PIDs : Reap(p)
    \/ \E c \in Cmds : StepTick(c)
    \/ \E c \in Cmds : BackoffTimer(c)
    \/ \E c \in Cmds : KillTimer(c)

SpecApi == InitApi /\ [][NextApi]_vars

(***************************************************************************)
(* Supervision of one service: the supervisor has loaded a configuration  *)
(* with the one service A, plain or waiting for <usr/x>.  Its process may *)
(* exit, the operator stops, starts and restarts it, facts come and go,   *)
(* the runlevel changes, the line is removed from the file or put back    *)
(* and the supervisor reloaded.  The main loop runs every scheduled step, *)
(* collects every exited child and lets every timer expire.               *)
(***************************************************************************)
SupLines == {Stanza("service", {2, 3, 4, 5}, FALSE, << >>, FALSE, 0),
             Stanza("service", {2, 3, 4, 5}, FALSE, <<UsrCond>>, FALSE, 0)}
SupLevels == {2, 6}

InitSup ==
    /\ conf \in {[c \in Cmds |-> IF c = TestCmd THEN st ELSE NoLine] : st \in SupLines}
    /\ LET S == service_reload_dynamic(BootState, conf)
       IN  /\ svc = S.svc /\ cond = S.cond /\ proc = S.proc /\ hupd = S.hupd
           /\ runlevel = S.runlevel /\ prevlevel = S.prevlevel /\ halt = S.halt
           /\ iter = S.iter
    /\ AuxInit
    /\ nin = 0
    /\ tpc = "off"
    /\ request = << >>
    /\ replies = << >>
    /\ unread = 0

\* the outside world acts MaxSupInputs times at most, and only while a
\* process id is left for the process its act may call for
SupInput == nin < MaxSupInputs /\ FreePids(Cur) # {}

NextSup ==
    \/ \E p \in PIDs : SupInput /\ ProcExit(p)
    \/ SupInput /\ ApiStart(TestCmd)
    \/ SupInput /\ ApiStop(TestCmd)
    \/ SupInput /\ ApiRestart(TestCmd)
    \/ \E minus \in BOOLEAN : SupInput /\ ApiEmit(UsrCond, minus)
    \/ \E lvl \in SupLevels : SupInput /\ ApiRunlevel(lvl)
    \/ \E st \in SupLines \cup {NoLine} : SupInput /\ WriteConf(TestCmd, st)
    \/ SupInput /\ Reload
    \/ \E p \in PIDs : Reap(p)
    \/ StepTick(TestCmd)
    \/ BackoffTimer(TestCmd)
    \/ KillTimer(TestCmd)

SpecSup ==
    /\ InitSup
    /\ [][NextSup]_vars
    /\ WF_vars(StepTick(TestCmd))
    /\ WF_vars(BackoffTimer(TestCmd))
    /\ WF_vars(KillTimer(TestCmd))
    /\ \A p \in PIDs : WF_vars(Reap(p))

(***************************************************************************)
(* The runlevel change: S2 = A runs in [2], Sb = B in [23], S3 = C in [3]. *)
(* The supervisor has loaded the three lines at runlevel 2.  The operator  *)
(* waits until A and B run, then requests runlevel 3 over the socket.      *)
(* Facts are emitted and the current level is requested again as they may; *)
(* the services do not exit on their own.                                  *)
(***************************************************************************)
S2 == "A"
Sb == "B"
S3 == "C"
LvlConf ==
    [c \in Cmds |->
        CASE c = S2 -> Stanza("service", {2}, FALSE, << >>, FALSE, 0)
          [] c = Sb -> Stanza("service", {2, 3}, FALSE, << >>, FALSE, 0)
          [] c = S3 -> Stanza("service", {3}, FALSE, << >>, FALSE, 0)]

InitLvl ==
    /\ conf = LvlConf
    /\ LET S == service_reload_dynamic(BootState, LvlConf)
       IN  /\ svc = S.svc /\ cond = S.cond /\ proc = S.proc /\ hupd = S.hupd
           /\ runlevel = S.runlevel /\ prevlevel = S.prevlevel /\ halt = S.halt
           /\ iter = S.iter
    /\ AuxInit
    /\ nin = 0
    /\ tpc = "lvl2"
    /\ request = << >>
    /\ replies = << >>
    /\ unread = 0

LvlReads(ch) == <<Frame("RUNLVL", ch, "", << >>)>>

\* initctl runlevel 3, once S2 and Sb are seen running
TRunlevel3 ==
    /\ tpc = "lvl2"
    /\ \A c \in {S2, Sb} : Registered(Cur, c) /\ svc[c].state = "RUNNING" /\ LiveOf(Cur, c) # {}
    /\ LET r == api_cb(Cur, conf, LvlReads("3"))
       IN  /\ Commit(r.S)
           /\ request' = LvlReads("3")
           /\ replies' = r.replies
           /\ unread' = r.unread
    /\ tpc' = "lvl3"
    /\ UNCHANGED <<aux, conf, nin>>

\* a request for the level the supervisor is at
TSameLevel ==
    /\ nin < MaxLvlInputs
    /\ ApiConn(LvlReads(ToString(runlevel)))

NextLvl ==
    \/ TRunlevel3
    \/ TSameLevel
    \/ \E minus \in BOOLEAN : nin < MaxLvlInputs /\ ApiEmit(UsrCond, minus)
    \/ \E p \in PIDs : Reap(p)
    \/ \E c \in Cmds : StepTick(c)
    \/ \E c \in Cmds : KillTimer(c)

SpecLvl ==
    /\ InitLvl
    /\ [][NextLvl]_vars
    /\ \A c \in Cmds : WF_vars(StepTick(c))
    /\ \A c \in Cmds : WF_vars(KillTimer(c))
    /\ \A p \in PIDs : WF_vars(Reap(p))
    /\ WF_vars(TRunlevel3)

(***************************************************************************)
(* Vocabulary of the properties                                            *)
(***************************************************************************)
IsReg(c) == svc[c] # NoSvc
StateOf(c) == svc[c].state
FactOf(c) == cond[mkcond(c)]
Unreaped(c) == {p \in PIDs : proc[p].owner = c /\ proc[p].st \in {"alive", "zombie"}}
Alive(c) == {p \in PIDs : proc[p].owner = c /\ proc[p].st = "alive"}
\* record c is forked in this step
Forks(c) == \E p \in PIDs : proc[p].st = "unused" /\ proc'[p].st = "alive" /\ proc'[p].owner = c
\* the reload at hand finds the stanza of c different from the registered one
FlaggedByReload(c) == IsReg(c) /\ conf[c] # NoLine /\ svc[c].line # conf[c]
\* the stanza the reload at hand registers leaves c enabled
EnabledAfterReload(c) ==
    /\ runlevel \in conf[c].lvls
    /\ ~svc[c].stopreq
    /\ LET cs == conf_parse_cond(svc[c], conf[c]).cond
       IN  \A i \in 1..Len(cs) : cond[cs[i]] # "OFF"
\* no step of the state machine is pending for c
Settled(c) == service_step(Cur, c) = Cur
\* the configuration on disk is the one the last reload has read
ConfUnchanged ==
    \A c \in Cmds :
        IF conf[c] = NoLine THEN ~IsReg(c) \/ svc[c].removed
        ELSE IsReg(c) /\ ~svc[c].removed /\ svc[c].line = conf[c]

(***************************************************************************)
(* C1: once the line of the service is written and the supervisor is       *)
(* reloaded, eventually exactly one child runs the service, and never more *)
(* than one; once the line is removed and the supervisor is reloaded,      *)
(* eventually no child of the service is left.                             *)
(***************************************************************************)
C1_DynamicAddRemove ==
    /\ [] (Cardinality(Unreaped(TestCmd)) <= 1)
    /\ (tpc = "wait1") ~> (Cardinality(Alive(TestCmd)) = 1 /\ Unreaped(TestCmd) = Alive(TestCmd))
    /\ (tpc = "wait2") ~> (Unreaped(TestCmd) = {})

\* the script has seen one child, then none: the record is gone and its
\* process was reaped
C1_Witness ==
    /\ tpc = "done"
    /\ svc[TestCmd] = NoSvc
    /\ \E p \in PIDs : proc[p] = [st |-> "reaped", owner |-> TestCmd]

(***************************************************************************)
(* C2: each service record has at most one process that has not been       *)
(* reaped: a process is forked for a record only when no earlier process   *)
(* of the record is alive or waiting to be reaped.                         *)
(***************************************************************************)
C2_AtMostOneProcess ==
    \A c \in Cmds : Cardinality(Unreaped(c)) <= 1

\* a record runs its second process, the first one reaped
C2_Witness ==
    \E c \in Cmds : \E p, q \in PIDs :
        /\ p # q
        /\ proc[p].owner = c /\ proc[p].st = "reaped"
        /\ proc[q].owner = c /\ proc[q].st = "alive"
        /\ IsReg(c) /\ StateOf(c) = "RUNNING" /\ svc[c].pid = q

(***************************************************************************)
(* C3 as claimed: whenever a record is RUNNING, its svc/<cmd> fact is ON.  *)
(***************************************************************************)
C3_RunningAssertsFact ==
    \A c \in Cmds : (IsReg(c) /\ StateOf(c) = "RUNNING") => FactOf(c) = "ON"

\* the sweep of the reload at hand leaves c flagged changed
ChangedByReload(c) == conf_reload(ReloadMark(Cur), conf).svc[c].dirty

(***************************************************************************)
(* C3 as amended: a pidfile create event of a record sets its svc/<cmd>    *)
(* fact ON, and a reload ends with the fact ON for every record that was   *)
(* RUNNING and not starting up before it, is not found changed by it and   *)
(* is RUNNING after it.                                                    *)
(***************************************************************************)
C3_ReloadReassertsFact ==
    [][\A c \in Cmds :
        /\ (IsReg(c) /\ \E content \in PidfileContents(c) : PidfileEvent(c, TRUE, content))
                => cond'[mkcond(c)] = "ON"
        /\ (IsReg(c) /\ StateOf(c) = "RUNNING" /\ ~svc[c].starting
                /\ svc'[c] # NoSvc /\ svc'[c].state = "RUNNING"
                /\ Reload /\ ~ChangedByReload(c))
                => cond'[mkcond(c)] = "ON"]_vars

\* after a reload (a user fact is in flux) a record runs, has announced
\* itself, and its fact is ON
C3_Witness ==
    \E c \in Cmds :
        /\ IsReg(c) /\ StateOf(c) = "RUNNING" /\ ~svc[c].starting /\ ~svc[c].dirty
        /\ FactOf(c) = "ON"
        /\ cond[UsrCond] = "FLUX"

(***************************************************************************)
(* C4: whenever a record is HALTED, its svc/<cmd> fact is not ON.          *)
(***************************************************************************)
C4_HaltedClearsFact ==
    \A c \in Cmds : (IsReg(c) /\ StateOf(c) = "HALTED") => FactOf(c) # "ON"

C6_WaitingHasUnmet ==
    \A c \in Cmds :
        (IsReg(c) /\ StateOf(c) = "WAITING")
            => \E i \in 1..Len(svc[c].cond) : cond[svc[c].cond[i]] # "ON"

(***************************************************************************)
(* C6 as amended: a record moves from WAITING to READY only in a step      *)
(* that ends with every one of its conditions ON.                          *)
(***************************************************************************)
C6_ReadyOnlyWhenAllOn ==
    [][\A c \in Cmds :
        (IsReg(c) /\ StateOf(c) = "WAITING" /\ svc'[c] # NoSvc /\ svc'[c].state = "READY")
            => \A i \in 1..Len(svc'[c].cond) : cond'[svc'[c].cond[i]] = "ON"]_vars

\* a record with a condition list that is not empty has become READY
C6_Witness ==
    \E c \in Cmds : IsReg(c) /\ StateOf(c) = "READY" /\ Len(svc[c].cond) > 0


(***************************************************************************)
(* C7 as claimed: a reload that finds the configuration as the previous    *)
(* reload left it changes no record's state, PID or flags, creates or      *)
(* deletes no record and leaves every condition fact as it was.            *)
(***************************************************************************)
C7_ReloadIdempotent ==
    [][(ConfUnchanged /\ Reload) => (svc' = svc /\ cond' = cond /\ proc' = proc)]_vars

\* every record is at rest: no step pending, none BLOCKED, and the fact of
\* each record that runs and has announced itself is ON
AtRest ==
    \A c \in Cmds :
        /\ Settled(c)
        /\ IsReg(c) => StateOf(c) # "BLOCKED"
        /\ (IsReg(c) /\ StateOf(c) = "RUNNING" /\ ~svc[c].starting) => FactOf(c) = "ON"

(***************************************************************************)
(* C7 as amended: a reload that finds the configuration as the previous    *)
(* reload left it, with every record at rest, creates or deletes no        *)
(* record, changes no record's state or PID, forks and signals nothing,    *)
(* and changes a condition fact only from ON to FLUX.                      *)
(***************************************************************************)
C7_ReloadIdempotentAtRest ==
    [][(ConfUnchanged /\ AtRest /\ Reload) =>
        /\ \A c \in Cmds :
            /\ (svc'[c] = NoSvc) <=> (svc[c] = NoSvc)
            /\ IsReg(c) => /\ svc'[c].state = svc[c].state
                           /\ svc'[c].pid = svc[c].pid
                           /\ svc'[c].removed = svc[c].removed
                           /\ svc'[c].starting = svc[c].starting
                           /\ svc'[c].stopreq = svc[c].stopreq
        /\ proc' = proc
        /\ hupd' = hupd
        /\ \A f \in Facts : cond'[f] = cond[f] \/ (cond[f] = "ON" /\ cond'[f] = "FLUX")]_vars

\* two records run, one of them has announced itself, and the configuration
\* is the one they were registered from: a second reload is about to happen
C7_Witness ==
    /\ ConfUnchanged /\ AtRest
    /\ nin < MaxInputs
    /\ \E c \in Cmds : IsReg(c) /\ StateOf(c) = "RUNNING" /\ ~svc[c].starting
    /\ \E c \in Cmds : IsReg(c) /\ StateOf(c) = "WAITING"

(***************************************************************************)
(* C8: a record declared with a condition svc/<X> is forked only when the  *)
(* fact svc/<X> is ON, that is, only when the record of X is running.      *)
(***************************************************************************)
C8_WaitsForDeclaredService ==
    [][\A c \in Cmds :
        (IsReg(c) /\ Forks(c)) =>
            \A i \in 1..Len(svc[c].line.conds) :
                svc[c].line.conds[i][1] = "svc" => cond[svc[c].line.conds[i]] = "ON"]_vars

(***************************************************************************)
(* C9: a RUNNING record whose stanza carries '!' and is found changed by   *)
(* a reload is moved to STOPPING by that reload and keeps its process; a   *)
(* record changes state only along STOPPING -> HALTED -> WAITING -> READY  *)
(* -> RUNNING (or back to HALTED from WAITING), never skipping an edge;    *)
(* and a process is forked for a record only from READY, when no earlier   *)
(* process of the record is still to be reaped.                            *)
(***************************************************************************)
C9_RestartCycle ==
    /\ [][\A c \in Cmds :
            (FlaggedByReload(c) /\ StateOf(c) = "RUNNING" /\ conf[c].bang /\ Reload)
                => /\ svc'[c] # NoSvc
                   /\ svc'[c].state = "STOPPING"
                   /\ svc'[c].pid = svc[c].pid
                   /\ svc[c].pid \in PIDs =>
                        /\ proc'[svc[c].pid] = proc[svc[c].pid]
                        /\ svc[c].pid \in hupd' <=> svc[c].pid \in hupd]_vars
    /\ [][\A c \in Cmds :
            (IsReg(c) /\ svc'[c] # NoSvc /\ svc'[c].state # svc[c].state) =>
                /\ StateOf(c) = "STOPPING" => svc'[c].state = "HALTED"
                /\ StateOf(c) = "HALTED" => svc'[c].state = "WAITING"
                /\ StateOf(c) = "WAITING" => svc'[c].state \in {"READY", "HALTED"}
                /\ StateOf(c) = "READY" => svc'[c].state = "RUNNING"]_vars
    /\ [][\A c \in Cmds :
            Forks(c) => (IsReg(c) /\ StateOf(c) = "READY" /\ Unreaped(c) = {}
                         /\ svc'[c].state = "RUNNING")]_vars

\* the record runs again, from the changed stanza and with a new process,
\* after the reload has stopped it and its old process was reaped
C9_Witness ==
    \E c \in Cmds : \E p, q \in PIDs :
        /\ IsReg(c) /\ svc[c].line.bang /\ StateOf(c) = "RUNNING"
        /\ svc[c].line = conf[c]
        /\ svc[c].restart_cnt = 0 /\ ~svc[c].dirty /\ ~svc[c].sighup
        /\ p # q /\ svc[c].pid = q
        /\ proc[q] = [st |-> "alive", owner |-> c]
        /\ proc[p] = [st |-> "reaped", owner |-> c]

(***************************************************************************)
(* C10 as claimed: a RUNNING record that accepts SIGHUP and is found       *)
(* changed by a reload is sent the signal by that reload, is not stopped,  *)
(* keeps its PID, stays RUNNING, and has its changed flag cleared.         *)
(***************************************************************************)
C10_SighupInPlace ==
    [][\A c \in Cmds :
        (FlaggedByReload(c) /\ StateOf(c) = "RUNNING" /\ ~conf[c].bang /\ Reload)
            => /\ svc'[c] # NoSvc
               /\ svc'[c].state = "RUNNING"
               /\ svc'[c].pid = svc[c].pid
               /\ svc[c].pid \in hupd'
               /\ ~svc'[c].dirty]_vars

(***************************************************************************)
(* C10 as amended: the same, for a record whose stored PID is that of its  *)
(* live process and that is still enabled under the changed stanza: the    *)
(* stanza allows it in the current runlevel, no stop was requested for it  *)
(* and none of its conditions is OFF.                                      *)
(***************************************************************************)
C10_SighupInPlaceIfEnabled ==
    [][\A c \in Cmds :
        (FlaggedByReload(c) /\ StateOf(c) = "RUNNING" /\ ~conf[c].bang
                /\ svc[c].pid \in Alive(c) /\ EnabledAfterReload(c) /\ Reload)
            => /\ svc'[c] # NoSvc
               /\ svc'[c].state = "RUNNING"
               /\ svc'[c].pid = svc[c].pid
               /\ svc[c].pid \in hupd'
               /\ proc'[svc[c].pid].st = proc[svc[c].pid].st
               /\ ~svc'[c].dirty]_vars

\* a record was signalled in place: it runs from a stanza other than the
\* one it was forked from and its only process has received SIGHUP
C10_Witness ==
    \E c \in Cmds :
        /\ IsReg(c) /\ StateOf(c) = "RUNNING" /\ svc[c].sighup
        /\ svc[c].pid \in hupd
        /\ proc[svc[c].pid].st = "alive"
        /\ ~svc[c].dirty
        /\ runlevel \in svc[c].runlevels

(***************************************************************************)
(* The control socket                                                      *)
(***************************************************************************)
SupervisorState == <<svc, cond, proc, hupd, runlevel, prevlevel, halt>>

\* C19: a connection whose first frame has a wrong magic or a short length
\* gets no ACK and no NACK, is closed with whatever the client sent after
\* it unread, and changes nothing of the supervisor: records, facts,
\* processes, runlevels and the shutdown action stay as they were.
C19_BadFrameClosed ==
    [][\A reads \in ApiReads :
          (Head(reads) \in BadFrames /\ request' = reads /\ ApiConn(reads))
          => /\ replies' = << >>
             /\ unread' = Len(reads) - 1
             /\ UNCHANGED SupervisorState]_vars

C19_Witness ==
    /\ Len(request) = 2
    /\ Head(request) \in BadFrames
    /\ replies = << >>
    /\ unread = 1

\* a connection on which the first read fails with errno and the client's
\* frame arrives after it
RetriedReads(errno) == {reads \in ApiReads : Len(reads) = 2 /\ Head(reads) = Failed(errno)}

\* C20 (as stated): after a read that fails with EINTR or EAGAIN the server
\* reads again on the same connection, so the frame that follows is served:
\* it is answered and nothing the client sent is left unread.
C20_RetryOnEintrOrEagain ==
    [][\A reads \in RetriedReads("EINTR") \cup RetriedReads("EAGAIN") :
          (request' = reads /\ ApiConn(reads))
          => (Len(replies') = 1 /\ unread' = 0)]_vars

\* C20 (amended): after a read that fails with EINTR the server reads again
\* on the same connection, so the frame that follows is served: it is
\* answered and nothing the client sent is left unread.
C20_RetryOnEintr ==
    [][\A reads \in RetriedReads("EINTR") :
          (request' = reads /\ ApiConn(reads))
          => (Len(replies') = 1 /\ unread' = 0)]_vars

C20_Witness ==
    /\ request \in RetriedReads("EINTR")
    /\ Len(replies) = 1
    /\ unread = 0

\* a connection that carries one frame asking for action cmd on a name
\* that matches no record
UnknownNameReads(cmd) == <<Frame(cmd, "", NoName, << >>)>>

\* C18: a start, stop or restart request whose job string matches no record
\* is answered with NACK and changes no record (state, pid, flags), and
\* nothing else of the supervisor either.
C18_UnknownNameNack ==
    [][\A cmd \in {"START_SVC", "STOP_SVC", "RESTART_SVC"} :
          (request' = UnknownNameReads(cmd) /\ ApiConn(UnknownNameReads(cmd)))
          => (replies' = <<"NACK">> /\ UNCHANGED SupervisorState)]_vars

C18_Witness ==
    /\ \E cmd \in {"START_SVC", "STOP_SVC", "RESTART_SVC"} : request = UnknownNameReads(cmd)
    /\ replies = <<"NACK">>

\* the level a runlevel byte asks for; -1 for a byte that names no level
RunlvlOf(ch) ==
    IF ch \in {"s", "S"} THEN 1
    ELSE IF ch \in DigitChars THEN DigitOf(ch)
    ELSE -1

SameLevelReads == {<<Frame("RUNLVL", ch, "", << >>)>> : ch \in {b \in RunlvlBytes : RunlvlOf(b) = runlevel}}

StartReads(c) == <<Frame("START_SVC", "", c, << >>)>>

NothingPending(c) ==
    /\ runlevel \in svc[c].runlevels
    /\ ~svc[c].removed
    /\ ~svc[c].stopreq
    /\ ~svc[c].dirty
    /\ \A i \in 1..Len(svc[c].cond) : cond[svc[c].cond[i]] # "OFF"

ReloadReads == <<Frame("RELOAD", "", "", << >>)>>
EmitReloadReads(word) == <<Frame("EMIT", "", "", <<word>>)>>

\* C17: a reload triggered by SIGHUP leaves the supervisor in the state in
\* which an API reload request would have left it, and in which emitting
\* the event RELOAD (in either case of letters) would have left it: the
\* same records in the same states, the same facts, the same processes and
\* signals sent; both requests are answered with ACK.
C17_ReloadEquivalence ==
    [][(nin' = nin + 1 /\ conf' = conf /\ Reload)
          => LET a == api_cb(Cur, conf, ReloadReads)
                 e == api_cb(Cur, conf, EmitReloadReads(ReloadWord))
                 l == api_cb(Cur, conf, EmitReloadReads(<<"r", "e", "l", "o", "a", "d">>))
             IN  /\ a.S = e.S /\ a.S = l.S
                 /\ a.replies = <<"ACK">> /\ e.replies = <<"ACK">> /\ l.replies = <<"ACK">>
                 /\ svc' = a.S.svc /\ cond' = a.S.cond /\ proc' = a.S.proc
                 /\ hupd' = a.S.hupd]_vars

\* a reload has found a stanza gone while its process ran, and another
\* stanza changed
C17_Witness ==
    /\ \E c \in Cmds : IsReg(c) /\ svc[c].removed /\ StateOf(c) = "STOPPING"
    /\ \E c \in Cmds : IsReg(c) /\ ~svc[c].removed /\ conf[c] = svc[c].line /\ svc[c].dirty

(***************************************************************************)
(* Supervision                                                             *)
(***************************************************************************)
Blocked(c) == IsReg(c) /\ StateOf(c) = "BLOCKED"
\* processes of c that the supervisor collected after an exit it had not
\* asked for
Crashed(c) == {p \in PIDs : proc[p].owner = c /\ proc[p].st = "crashed"}
\* the step is an operator request or a reload that releases record c
Releases(c) == ApiStart(c) \/ ApiRestart(c) \/ Reload

WantedUp(c) ==
    /\ IsReg(c)
    /\ ~svc[c].removed
    /\ ~svc[c].stopreq
    /\ runlevel \in svc[c].runlevels
    /\ \A i \in 1..Len(svc[c].cond) : cond[svc[c].cond[i]] = "ON"

\* record c runs a process that never crashed
RunsNewProcess(c) ==
    /\ IsReg(c) /\ StateOf(c) = "RUNNING"
    /\ svc[c].pid \in PIDs
    /\ proc[svc[c].pid].owner = c
    /\ proc[svc[c].pid].st \in {"alive", "zombie"}

\* C13: whenever the process of the service has exited below the restart
\* cap (the record is CRASHED), the record is eventually RUNNING with a new
\* process, unless on the way it turns out not to be wanted up: stopped by
\* request, removed, not eligible in the runlevel, or a condition not ON.
C13_RespawnAfterCrash ==
    (IsReg(TestCmd) /\ StateOf(TestCmd) = "CRASHED")
        ~> (RunsNewProcess(TestCmd) \/ ~WantedUp(TestCmd))

\* the service crashed once and runs again, its second process alive
C13_Witness ==
    /\ RunsNewProcess(TestCmd)
    /\ svc[TestCmd].restart_cnt = 1
    /\ Cardinality(Crashed(TestCmd)) = 1
    /\ svc[TestCmd].pid \in Alive(TestCmd)
    /\ WantedUp(TestCmd)

\* the line of record c is gone from the file
LineGone(c) == conf[c] = NoLine
\* record c is marked for deletion
Marked(c) == IsReg(c) /\ svc[c].removed

C14_RunlevelChange ==
    /\ (tpc = "lvl3") ~> (/\ IsReg(S2) /\ StateOf(S2) = "HALTED" /\ Unreaped(S2) = {}
                          /\ IsReg(S3) /\ StateOf(S3) = "RUNNING" /\ svc[S3].pid \in Alive(S3))
    /\ [][tpc' = "lvl3"
            => /\ IsReg(Sb) /\ svc'[Sb] # NoSvc
               /\ svc'[Sb].state = "RUNNING"
               /\ svc'[Sb].pid = svc[Sb].pid
               /\ svc'[Sb].pid \in PIDs
               /\ proc'[svc'[Sb].pid] = [st |-> "alive", owner |-> Sb]
               /\ svc'[Sb].pid \notin hupd']_vars

\* runlevel 3 is reached: S2 halted, S3 and Sb running
C14_Witness ==
    /\ tpc = "lvl3" /\ runlevel = 3 /\ prevlevel = 2
    /\ StateOf(S2) = "HALTED" /\ Unreaped(S2) = {}
    /\ StateOf(S3) = "RUNNING" /\ svc[S3].pid \in Alive(S3)
    /\ StateOf(Sb) = "RUNNING" /\ svc[Sb].pid \in Alive(Sb)

(***************************************************************************)
(* C21: requests served on one connection                                  *)
(***************************************************************************)
WellFormed(r) == IsFrame(r) /\ r.magic = "INIT_MAGIC" /\ r.len = "sizeof"
SnapshotCmds == {"SVC_ITER", "SVC_FIND"}
\* a read after which the server leaves its loop
Stops(r) == r.kind # "EINTR" /\ (~WellFormed(r) \/ r.cmd \in SnapshotCmds \cup {"ACK"})
\* the place of the first such read of the last connection, or one past the end
StopAt ==
    LET at == {i \in 1..Len(request) : Stops(request[i])}
    IN  IF at = {} THEN Len(request) + 1 ELSE CHOOSE i \in at : \A j \in at : i <= j
Answered == {i \in 1..(StopAt - 1) : IsFrame(request[i])}
IsAnswer(x) == x \in {"ACK", "NACK"}

\* C21 as stated: a connection whose first read is a well-formed request gets
\* one answer, an ACK or NACK or one snapshot, and whatever the client sent
\* after that request is never read.
C21_OneRequestPerConnection ==
    (request # << >> /\ WellFormed(Head(request)) /\ Head(request).cmd # "ACK")
    => (Len(replies) = 1 /\ unread = FramesIn(Tail(request)))

\* C21, amended: the server answers every well-formed request it reads on a
\* connection, in order, with one ACK or NACK each, and goes on reading; it
\* closes after a failed read other than an interrupted one, a malformed
\* frame, an ACK frame, or a find or enumerate request, which gets one
\* snapshot and no ACK; what the client sent after that is never read.
C21_ServesUntilClosed ==
    LET snap == StopAt <= Len(request) /\ WellFormed(request[StopAt])
                /\ request[StopAt].cmd \in SnapshotCmds
        n == Cardinality(Answered)
    IN  /\ Len(replies) = n + (IF snap THEN 1 ELSE 0)
        /\ \A i \in 1..n : IsAnswer(replies[i])
        /\ snap => ~IsAnswer(replies[n + 1])
        /\ unread = FramesIn(SubSeq(request, StopAt + 1, Len(request)))

\* a connection with two requests has been served: two answers
C21_Witness ==
    /\ Len(request) = 2 /\ WellFormed(request[1]) /\ WellFormed(request[2])
    /\ Len(replies) = 2 /\ IsAnswer(replies[1]) /\ IsAnswer(replies[2])
    /\ unread = 0

(***************************************************************************)
(* Enumeration: the supervisor has loaded the configuration of the        *)
(* control socket scenario (records A and B); two clients list the        *)
(* registry, one enumerate request per connection, the first with the     *)
(* first flag set, until they receive the snapshot of no record.          *)
(* Processes exit and are reaped meanwhile.                                *)
(***************************************************************************)
IterReads(first) == <<Frame("SVC_ITER", IF first THEN "first" ELSE "", "", << >>)>>
IterDone(k) == got[k] # << >> /\ got[k][Len(got[k])] = NoRecord
IterInput == nin < MaxIterInputs /\ nin' = nin + 1

\* client k asks for the next record
IterStep(k) ==
    /\ IterInput
    /\ ~IterDone(k)
    /\ LET reads == IterReads(got[k] = << >>)
           r == api_cb(Cur, conf, reads)
       IN  /\ Commit(r.S)
           /\ request' = reads
           /\ replies' = r.replies
           /\ unread' = r.unread
           /\ got' = [got EXCEPT ![k] = got[k] \o r.replies]
    /\ UNCHANGED <<filters, conn, finitconf, single, tools, parsed, conf, tpc>>

NextIter ==
    \/ \E k \in IterClients : IterStep(k)
    \/ \E p \in PIDs : nin < MaxIterInputs /\ ProcExit(p)
    \/ \E p \in PIDs : Reap(p)
    \/ \E c \in Cmds : StepTick(c)
    \/ \E c \in Cmds : BackoffTimer(c)

SpecIter == InitApi /\ [][NextIter]_vars

(***************************************************************************)
(* C22: enumeration by several clients                                     *)
(***************************************************************************)
RECURSIVE RegistryFrom(_)
RegistryFrom(i) ==
    IF i > Len(CmdOrder) THEN << >>
    ELSE (IF IsReg(CmdOrder[i]) THEN <<CmdOrder[i]>> ELSE << >>) \o RegistryFrom(i + 1)

\* C22: a client that has enumerated to the end has received every record of
\* the registry exactly once, in registry order, and then the end marker,
\* whatever requests of other clients came in between.
C22_EveryRecordOnce ==
    \A k \in IterClients : IterDone(k) => got[k] = RegistryFrom(1) \o <<NoRecord>>

Ifaces == {"eth0", "eth1"}
\* the interfaces connections arrive on; no rule names eth2
AcceptIfaces == Ifaces \cup {"eth2"}
inetd_filter(deny, ifname) == [deny |-> deny, ifname |-> ifname]

\* inetd_is_allowed() that accepts a connection no rule names
inetd_is_allowed_open(rules, ifname) ==
    LET hits == {k \in 1..Len(rules) : rules[k].ifname = ifname}
    IN  IF hits = {} THEN TRUE
        ELSE ~rules[CHOOSE k \in hits : \A j \in hits : k <= j].deny

\* the rules are compared in declaration order and the first that names
\* the interface decides; with no such rule a record that has allow rules
\* rejects and one that has none accepts
inetd_is_allowed(rules, ifname) ==
    LET hits == {k \in 1..Len(rules) : rules[k].ifname = ifname}
    IN  IF hits = {} THEN \A k \in 1..Len(rules) : rules[k].deny
        ELSE ~rules[CHOOSE k \in hits : \A j \in hits : k <= j].deny

inetd_allow(ifname) ==
    /\ Len(filters) < MaxRules
    /\ filters' = Append(filters, inetd_filter(FALSE, ifname))
    /\ UNCHANGED <<obs, got, conn, finitconf, single, tools, parsed,
                   svc, cond, proc, hupd, runlevel, prevlevel, halt, iter, conf, nin, tpc>>

inetd_deny(ifname) ==
    /\ Len(filters) < MaxRules
    /\ filters' = Append(filters, inetd_filter(TRUE, ifname))
    /\ UNCHANGED <<obs, got, conn, finitconf, single, tools, parsed,
                   svc, cond, proc, hupd, runlevel, prevlevel, halt, iter, conf, nin, tpc>>

inetd_flush ==
    /\ filters # << >>
    /\ filters' = << >>
    /\ UNCHANGED <<obs, got, conn, finitconf, single, tools, parsed,
                   svc, cond, proc, hupd, runlevel, prevlevel, halt, iter, conf, nin, tpc>>

\* a connection arrives on the socket bound to interface ifname
InetdConnect(ifname) ==
    /\ conn' = [ifname |-> ifname, accepted |-> inetd_is_allowed(filters, ifname)]
    /\ UNCHANGED <<obs, got, filters, finitconf, single, tools, parsed,
                   svc, cond, proc, hupd, runlevel, prevlevel, halt, iter, conf, nin, tpc>>

NextInetd ==
    \/ \E i \in Ifaces : inetd_allow(i)
    \/ \E i \in Ifaces : inetd_deny(i)
    \/ inetd_flush
    \/ \E i \in AcceptIfaces : InetdConnect(i)

SpecInetd == Init /\ [][NextInetd]_vars

(***************************************************************************)
(* C24: which connections an inetd record accepts                          *)
(***************************************************************************)
AllowList == {filters[k].ifname : k \in {j \in 1..Len(filters) : ~filters[j].deny}}
DenyList == {filters[k].ifname : k \in {j \in 1..Len(filters) : filters[j].deny}}
Connected == conn # NoConn

\* C24: a connection on interface i is accepted if and only if (i is on the
\* allow list or the allow list is empty) and i is not on the deny list;
\* when several rules name i, so that the lists overlap on i, the first of
\* them in declaration order decides: the connection is accepted if and only
\* if that rule is an allow rule.
C24_FirstMatchDecides ==
    [][\A i \in AcceptIfaces :
          InetdConnect(i)
          => LET named == {k \in 1..Len(filters) : filters[k].ifname = i}
             IN  /\ named # {} =>
                      (conn'.accepted <=> \E k \in named : /\ ~filters[k].deny
                                                           /\ \A j \in named : k <= j)
                 /\ named = {} => (conn'.accepted <=> AllowList = {})
                 /\ i \notin AllowList \cap DenyList =>
                      (conn'.accepted <=> ((i \in AllowList \/ AllowList = {}) /\ i \notin DenyList))]_vars

\* a connection on an interface that is on both lists, allowed first, has
\* been accepted
C24_Witness ==
    /\ Connected /\ conn.accepted
    /\ conn.ifname \in AllowList \cap DenyList
    /\ inetd_is_allowed(filters, conn.ifname)

(***************************************************************************)
(* Boot: finit.conf is read for the first time, at runlevel 0, with or    *)
(* without "single" on the command line.                                   *)
(***************************************************************************)
\* the first conf_reload(), during bootstrap
BootParse ==
    /\ runlevel = 0
    /\ tpc = "boot"
    /\ tpc' = "parsed"
    /\ CommitG(conf_reload_globals(CurG, finitconf))
    /\ UNCHANGED <<obs, got, filters, conn, finitconf, single, tools,
                   svc, cond, proc, hupd, runlevel, prevlevel, halt, iter, conf, nin>>

\* bootstrap before any file is read, the scenario's own state left open
CoreBoot ==
    /\ svc = [c \in Cmds |-> NoSvc]
    /\ cond = [f \in Facts |-> "OFF"]
    /\ proc = [p \in PIDs |-> [st |-> "unused", owner |-> "none"]]
    /\ hupd = {}
    /\ runlevel = 0
    /\ prevlevel = 0
    /\ conf = [c \in Cmds |-> NoLine]
    /\ nin = 0
    /\ halt = "SHUT_DEFAULT"
    /\ iter = 0
    /\ request = << >>
    /\ replies = << >>
    /\ unread = 0
    /\ got = [k \in IterClients |-> << >>]
    /\ filters = << >>
    /\ conn = NoConn
    /\ cfglevel = RUNLEVEL
    /\ hostname = << >>
    /\ network = << >>
    /\ runparts = << >>
    /\ rlimit = InitialRlimit
    /\ env = BootEnv
    /\ env_list = << >>
    /\ ran = << >>
    /\ jobs = << >>

BootInit ==
    /\ CoreBoot
    /\ tpc = "boot"
    /\ ToolsInit

(***************************************************************************)
(* Runlevel fields: finit.conf holds one service, task or run stanza,     *)
(* without a runlevel field or with a field of up to MaxFieldLen          *)
(* characters after the bracket.                                           *)
(***************************************************************************)
FieldChars == {"0", "2", "6", "9", "S", "s", "!", "x", "]"}
Fields == {<<"[">> \o f : f \in UNION {[1..k -> FieldChars] : k \in 0..MaxFieldLen}}

InitRl ==
    /\ BootInit
    /\ single = FALSE
    /\ \E t \in JobTypes, f \in Fields \cup {NoField} :
          finitconf = <<ConfLine(t, f, <<"/sbin/a">>)>>

NextRl == BootParse

SpecRl == InitRl /\ [][NextRl]_vars

(***************************************************************************)
(* C26, C27: the runlevels of a stanza                                     *)
(***************************************************************************)
Parsed == tpc = "parsed"
TheField == finitconf[1].field
\* the characters of the field the parser reads: up to the closing bracket
Read == LET ends == {i \in 2..Len(TheField) : TheField[i] = "]"}
        IN  IF ends = {} THEN 2..Len(TheField)
            ELSE 2..((CHOOSE i \in ends : \A j \in ends : i <= j) - 1)
Bangs == {i \in Read : TheField[i] = "!"}
LevelChar(ch, d) == (ch \in DigitChars /\ DigitOf(ch) = d) \/ (d = 0 /\ ch \in {"S", "s"})
Listed(from) == {d \in Levels : \E i \in Read : i >= from /\ LevelChar(TheField[i], d)}

\* C26 as stated: each digit d sets level d, S and s set level 1, a leading
\* ! yields the complement of the listed levels within 1..9 without 6, and
\* other characters are ignored.
C26_FieldAsStated ==
    (Parsed /\ TheField # NoField)
    => LET listed == {d \in Levels : \E i \in Read :
                          \/ TheField[i] \in DigitChars /\ DigitOf(TheField[i]) = d
                          \/ d = 1 /\ TheField[i] \in {"S", "s"}}
       IN  jobs[1].runlevels = IF 2 \in Bangs THEN ((1..9) \ {6}) \ listed ELSE listed

\* C26, amended: the field is read up to its closing bracket.  Without a !
\* each digit d sets level d and the letters S and s set level 0, the
\* bootstrap level.  With a !, the mask is the levels 1..9, 6 among them,
\* without the levels listed after the last !; what is listed before a !
\* is dropped.  Level 0 is never set by a field with a !.  Other characters
\* are ignored.
C26_FieldAsParsed ==
    (Parsed /\ TheField # NoField)
    => LET last == IF Bangs = {} THEN 0 ELSE CHOOSE i \in Bangs : \A j \in Bangs : j <= i
       IN  jobs[1].runlevels = IF Bangs = {} THEN Listed(2) ELSE (1..9) \ Listed(last)

\* a field with a leading ! that does not list 6 has been parsed: 6 is set
C26_Witness ==
    /\ Parsed /\ TheField # NoField /\ 2 \in Bangs
    /\ 6 \notin Listed(2) /\ 6 \in jobs[1].runlevels

\* C27: a service, task or run stanza without a runlevel field is eligible
\* in exactly the runlevels 2, 3, 4 and 5.
C27_DefaultRunlevels ==
    (Parsed /\ TheField = NoField) => jobs[1].runlevels = {2, 3, 4, 5}

(***************************************************************************)
(* Configuration: the system boots with some finit.conf, leaves bootstrap *)
(* for the configured level, the file is edited by a line and reloaded.   *)
(***************************************************************************)
RunlevelLine(n) == ConfLine("runlevel", NoField, <<n>>)
EnvLine(key, val) == ConfLine(key, NoField, <<"=">> \o val)
BogusLine == ConfLine("bogus", NoField, <<"foo">>)
\* a misspelt stanza whose command line holds an option with '='
MisspeltLine == ConfLine("servce", NoField, <<"/sbin/a", "--opt", "=", "1">>)
BadRlimitLine == ConfLine("rlimit", NoField, <<"soft", "nofile", "abc">>)
BadRunlevelLines == {RunlevelLine(n) : n \in {"0", "10", "x"}}

ConfLines ==
    {RunlevelLine(n) : n \in {"3", "6"}} \cup BadRunlevelLines
    \cup {ConfLine("host", NoField, <<"box">>),
          ConfLine("network", NoField, <<"/etc/net.sh">>),
          ConfLine("runparts", NoField, <<"/etc/rc.d">>),
          ConfLine("mknod", NoField, <<"/dev/x", "c", "1", "2">>),
          ConfLine("module", NoField, <<"ipv6", "disable", "=", "1">>)}
    \cup {EnvLine("K", <<"1">>), EnvLine("K", <<"\"", "2", "\"">>), EnvLine("PATH", <<"/x">>)}
    \cup {ConfLine("rlimit", NoField, <<"soft", "nofile", "1024">>), BadRlimitLine}
    \cup {ConfLine("service", DefaultField, <<"/sbin/a">>)}
    \cup {BogusLine, MisspeltLine}

ConfFiles == UNION {[1..k -> ConfLines] : k \in 0..MaxLines}

\* what an editor makes of the file: a line appended, removed, or replaced
\* by another line of the same first word
Edits(file) ==
    {Append(file, l) : l \in {x \in ConfLines : Len(file) < MaxLines}}
    \cup {SubSeq(file, 1, i - 1) \o SubSeq(file, i + 1, Len(file)) : i \in 1..Len(file)}
    \cup UNION {{[file EXCEPT ![i] = l] : l \in {x \in ConfLines : x.cmd = file[i].cmd /\ x # file[i]}} :
                   i \in 1..Len(file)}

InitConf ==
    /\ BootInit
    /\ single \in BOOLEAN
    /\ finitconf \in ConfFiles

\* bootstrap is left for the configured level
LeaveBootstrap ==
    /\ runlevel = 0
    /\ tpc = "parsed"
    /\ tpc' = "up"
    /\ Commit(service_runlevel(Cur, cfglevel))
    /\ UNCHANGED <<obs, aux, conf, nin>>

EditConf(file) ==
    /\ runlevel # 0
    /\ nin < MaxConfEdits
    /\ nin' = nin + 1
    /\ finitconf' = file
    /\ UNCHANGED <<obs, got, filters, conn, single, tools, parsed,
                   svc, cond, proc, hupd, runlevel, prevlevel, halt, iter, conf, tpc>>

\* initctl reload, or SIGHUP, after bootstrap
ReloadConf ==
    /\ runlevel # 0
    /\ tpc \in {"up", "reloaded"}
    /\ tpc' = "reloaded"
    /\ CommitG(conf_reload_globals(CurG, finitconf))
    /\ UNCHANGED <<obs, got, filters, conn, finitconf, single, tools,
                   svc, cond, proc, hupd, runlevel, prevlevel, halt, iter, conf, nin>>

NextConf ==
    \/ BootParse
    \/ LeaveBootstrap
    \/ \E file \in Edits(finitconf) : EditConf(file)
    \/ ReloadConf

SpecConf == InitConf /\ [][NextConf]_vars

(***************************************************************************)
(* C25: the configured runlevel                                            *)
(***************************************************************************)
ValidLevels == {1, 2, 3, 4, 5, 7, 8, 9}
RunlevelLines == {i \in 1..Len(finitconf) : finitconf[i].cmd = "runlevel"}
\* the argument of the last runlevel directive of the file
LastLevelArg == finitconf[CHOOSE i \in RunlevelLines : \A j \in RunlevelLines : j <= i].arg[1]

\* C25: the configured runlevel is always one of 1,2,3,4,5,7,8,9; a runlevel
\* directive with N = 0, N = 6, N > 9 or a non-numeric N, parsed at
\* bootstrap, results in level 2 (unless "single" on the command line asks
\* for level 1); a runlevel directive parsed while the runlevel is not 0
\* leaves the configured level as it is.
C25_ConfiguredLevel ==
    /\ [](cfglevel \in ValidLevels)
    /\ [][/\ (BootParse /\ RunlevelLines # {} /\ LastLevelArg \in {"0", "6", "10", "x"} /\ ~single)
             => cfglevel' = 2
          /\ (BootParse /\ RunlevelLines # {} /\ LastLevelArg = "3" /\ ~single)
             => cfglevel' = 3
          /\ ReloadConf => cfglevel' = cfglevel
          /\ LeaveBootstrap => runlevel' = cfglevel]_vars

\* the system has booted with `runlevel 6` as the last runlevel directive
\* and entered level 2
C25_Witness ==
    /\ tpc = "up" /\ RunlevelLines # {} /\ LastLevelArg = "6"
    /\ cfglevel = 2 /\ runlevel = 2

(***************************************************************************)
(* C29: bootstrap-only directives after bootstrap                          *)
(***************************************************************************)

BadLines == {BogusLine, MisspeltLine, BadRlimitLine} \cup BadRunlevelLines
RECURSIVE Without(_, _)
Without(file, lines) ==
    IF file = << >> THEN << >>
    ELSE (IF Head(file) \in lines THEN << >> ELSE <<Head(file)>>) \o Without(Tail(file), lines)
\* the values of the parser's globals in G, in the order of parsed
Globals(G) == <<G.cfglevel, G.hostname, G.network, G.runparts, G.rlimit,
                G.env, G.env_list, G.ran, G.jobs>>
Parses == BootParse \/ ReloadConf
\* the name a misspelt stanza with '=' assigns
MisspeltKey == <<"servce", "/sbin/a", "--opt">>
EnvBut(E, name) == {p \in E : p[1] # name}
RECURSIVE ListBut(_, _)
ListBut(l, name) ==
    IF l = << >> THEN << >>
    ELSE (IF Head(l) = name THEN << >> ELSE <<Head(l)>>) \o ListBut(Tail(l), name)

\* C28 as stated: the file is parsed to the end, and the outcome is the
\* outcome of parsing the file without its bad lines: a bad line is skipped
\* and every other line takes effect as if the bad line were absent.
C28_BadLinesSkipped ==
    [][Parses => parsed' = Globals(conf_reload_globals(CurG, Without(finitconf, BadLines)))]_vars

\* C28, amended: a bad line never aborts the file, and every other line is
\* parsed and takes effect as if the bad line were absent.  The bad line
\* itself has no effect, with two exceptions: a line with an unknown
\* directive that holds a '=' is taken as an assignment to the environment
\* (the name is what precedes the first '='), and a runlevel directive with a
\* malformed or out-of-range argument, parsed at bootstrap, sets the
\* configured level to the default, after which later lines and "single"
\* apply as usual.
C28_BadLinesHarmless ==
    [][Parses =>
         LET H == conf_reload_globals(CurG, Without(finitconf, BadLines))
             lastbad == /\ runlevel = 0 /\ RunlevelLines # {}
                        /\ RunlevelLine(LastLevelArg) \in BadRunlevelLines
         IN  /\ <<hostname', network', runparts', rlimit', ran', jobs'>>
                  = <<H.hostname, H.network, H.runparts, H.rlimit, H.ran, H.jobs>>
             /\ EnvBut(env', MisspeltKey) = EnvBut(H.env, MisspeltKey)
             /\ ListBut(env_list', MisspeltKey) = ListBut(H.env_list, MisspeltKey)
             /\ (\A i \in 1..Len(finitconf) : finitconf[i] # MisspeltLine)
                  => (env' = H.env /\ env_list' = H.env_list)
             /\ cfglevel' = IF lastbad THEN (IF single THEN 1 ELSE RUNLEVEL) ELSE H.cfglevel]_vars

\* a file whose first line is bad and whose second is a stanza has been
\* parsed: the stanza is registered
C28_Witness ==
    /\ tpc = "parsed" /\ Len(finitconf) = 2
    /\ finitconf[1] \in BadLines /\ finitconf[2].cmd = "service"
    /\ Len(jobs) = 1

(***************************************************************************)
(* C30: the environment after a reload                                     *)
(***************************************************************************)
\* the lines of the file that reach parse_env and hold a '='
Reaches(line) ==
    /\ line.cmd \notin JobTypes \cup {"rlimit", "#"}
    /\ ~(runlevel = 0 /\ line.cmd \in {"host", "hostname", "mknod", "module", "network",
                                       "runparts", "runlevel"})
    /\ \E i \in 1..Len(Words(line)) : Words(line)[i] = "="
KeyOf(line) ==
    LET w == Words(line)
    IN  SubSeq(w, 1, (CHOOSE i \in 1..Len(w) : w[i] = "=" /\ \A j \in 1..(i - 1) : w[j] # "=") - 1)
Assigned == {KeyOf(finitconf[i]) : i \in {j \in 1..Len(finitconf) : Reaches(finitconf[j])}}
Tracked(l) == {l[i] : i \in 1..Len(l)}
\* the value the last KEY=VALUE line for the name K gives it
PlainK == {i \in 1..Len(finitconf) : finitconf[i].cmd = "K"}
LastK == finitconf[CHOOSE i \in PlainK : \A j \in PlainK : j <= i]

\* C30 as stated: after a reload every name noted before it that the file
\* no longer assigns is unset, every KEY=VALUE line of the file is in
\* force, and the noted names are the names assigned by this parse.
C30_EnvAsStated ==
    [][Parses =>
         /\ \A name \in Tracked(env_list) \ Assigned : ~IsSet(env', name)
         /\ PlainK # {} => getenv(env', <<"K">>) = (IF LastK = EnvLine("K", <<"1">>) THEN <<"1">> ELSE <<"2">>)
         /\ Tracked(env_list') = Assigned]_vars

\* C30, amended: after a reload every name noted before it that the file no
\* longer assigns is unset, except PATH, SHELL, LOGNAME and USER, which are
\* set to their built-in defaults when the file does not assign them; a name
\* the file assigns has the value of its last assignment, without the
\* quotes around it; the noted names are the names assigned by this parse.
C30_EnvAfterReload ==
    [][Parses =>
         /\ \A name \in (Tracked(env_list) \ Assigned) \ StdNames : ~IsSet(env', name)
         /\ \A p \in StdEnv : p[1] \notin Assigned => (IsSet(env', p[1]) /\ getenv(env', p[1]) = p[2])
         /\ \A name \in Assigned : IsSet(env', name)
         /\ PlainK # {} => getenv(env', <<"K">>) = (IF LastK = EnvLine("K", <<"1">>) THEN <<"1">> ELSE <<"2">>)
         /\ Tracked(env_list') = Assigned]_vars

\* K was assigned at boot, the line has been removed and the file reloaded:
\* K is unset and no longer noted
C30_Witness ==
    /\ tpc = "reloaded" /\ nin = 1
    /\ <<"K">> \notin Assigned
    /\ ~IsSet(env, <<"K">>)
    /\ Tracked(env_list) = Assigned

(***************************************************************************)
(* conf.c: the command line of PID 1.  A token is a string; the tokens of  *)
(* digits are the numerals of strtonum and the empty token.                *)
(***************************************************************************)
\* at most this many arguments follow argv[0]
MaxArgs == 3
ArgTokens == {"2", "3", "6", "0", "10", "", "quiet", "single", "S", "rescue", "finit.debug"}
ArgLists == UNION {[1..n -> ArgTokens] : n \in 0..MaxArgs}

\* the loop over isdigit(): no character of the token is anything else
AllDigits(tok) == tok \in Numerals \cup {""}

\* 0 for what is no level
parse_runlevel(arg) ==
    IF ~AllDigits(arg) THEN 0
    ELSE LET n == strtonum(arg, 1, 9)
         IN  IF n.err # "" \/ n.val = 6 THEN 0 ELSE n.val

\* finit.debug, finit.fstab, finit.status, finit.status_style
FinitOpts == {"finit.debug"}

\* the options are looked for first; what is left is taken for a runlevel
parse_arg(A, arg) ==
    IF arg \in FinitOpts THEN A
    ELSE IF arg \in {"rescue", "recover"} THEN [A EXCEPT !.rescue = TRUE]
    ELSE IF arg \in {"single", "S"} THEN [A EXCEPT !.single = TRUE]
    ELSE [A EXCEPT !.cmdlevel = parse_runlevel(arg)]

RECURSIVE conf_parse_cmdline(_, _)
conf_parse_cmdline(A, args) ==
    IF args = << >> THEN A ELSE conf_parse_cmdline(parse_arg(A, Head(args)), Tail(args))

InitCmdline ==
    /\ CoreBoot
    /\ tpc = "argv"
    /\ finitconf = << >>
    /\ single = FALSE
    /\ cmdlevel = 0
    /\ rescue = FALSE
    /\ argv \in ArgLists
    /\ RunInit
    /\ PartsInit
    /\ TreeInit

\* main() hands its arguments to the parser before anything else
ParseCmdline ==
    /\ tpc = "argv"
    /\ tpc' = "parsed"
    /\ LET A == conf_parse_cmdline([cmdlevel |-> cmdlevel, single |-> single,
                                    rescue |-> rescue], argv)
       IN  /\ cmdlevel' = A.cmdlevel
           /\ single' = A.single
           /\ rescue' = A.rescue
    /\ UNCHANGED <<obs, got, filters, conn, finitconf, parsed, argv, runargs, runret, parts, tree,
                   svc, cond, proc, hupd, runlevel, prevlevel, halt, iter, conf, nin>>

NextCmdline == ParseCmdline

SpecCmdline == InitCmdline /\ [][NextCmdline]_vars

(***************************************************************************)
(* C38: the runlevel of the command line                                   *)
(***************************************************************************)
\* the tokens that are a valid runlevel: digits only, 1..9 without 6
LevelTokens == {d \in DigitChars : DigitOf(d) \in (1..9) \ {6}}
GivenLevels == {DigitOf(argv[i]) : i \in {j \in DOMAIN argv : argv[j] \in LevelTokens}}

\* C38: after conf_parse_cmdline the command-line runlevel is the value of a
\* token that is a valid runlevel, whatever other tokens precede or follow
\* that token, and 0 when no token is a valid runlevel.
C38_CmdlineRunlevel ==
    tpc = "parsed" =>
        IF GivenLevels # {} THEN cmdlevel \in GivenLevels ELSE cmdlevel = 0

(***************************************************************************)
(* exec.c: run().  A command is its characters; a wait status is the       *)
(* integer waitpid stores: the exit code in bits 8..15, the signal in bits *)
(* 0..6, the core flag in bit 7.                                           *)
(***************************************************************************)
NUM_ARGS == 16
\* the longest command of the model, in words
MaxWords == 17
NULL == 0
Blanks == {"\t", " "}

\* strsep(&arg, "\t "): the token runs up to the first blank, arg is moved
\* behind that blank, or to NULL when there is none
strsep(s, arg) ==
    LET hits == {q \in arg..Len(s) : s[q] \in Blanks}
    IN  IF hits = {} THEN [tok |-> SubSeq(s, arg, Len(s)), arg |-> NULL]
        ELSE LET q == CHOOSE h \in hits : \A g \in hits : h <= g
             IN  [tok |-> SubSeq(s, arg, q - 1), arg |-> q + 1]

\* the loop that fills args[] after the first token
RECURSIVE SplitFrom(_, _, _)
SplitFrom(s, args, arg) ==
    IF arg # NULL /\ Len(args) < NUM_ARGS
    THEN LET r == strsep(s, arg) IN SplitFrom(s, Append(args, r.tok), r.arg)
    ELSE [args |-> args, arg |-> arg]

\* what waitpid stores for a child that ended so
WaitStatus(e) ==
    IF e.kind = "exit" THEN (e.code % 256) * 256
    ELSE e.code + (IF e.core THEN 128 ELSE 0)

WEXITSTATUS(status) == (status \div 256) % 256
WTERMSIG(status) == status % 128
WIFEXITED(status) == WTERMSIG(status) = 0
WIFSIGNALED(status) == WTERMSIG(status) # 0 /\ WTERMSIG(status) # 127

\* complete(): the status of waitpid, -1 when waitpid fails
complete(rq) ==
    IF ~rq.wait THEN -1
    ELSE WaitStatus(IF rq.exec THEN rq.child ELSE Ended("exit", 1, FALSE))

\* run() that hands back the exit status field of every child
run_rawstatus(rq) ==
    IF ~rq.strdup THEN 1
    ELSE LET first == strsep(rq.cmd, 1)
             sp == SplitFrom(rq.cmd, <<first.tok>>, first.arg)
         IN  IF Len(sp.args) = NUM_ARGS /\ sp.arg # NULL THEN 1
             ELSE IF ~rq.fork THEN -1
             ELSE LET status == complete(rq)
                  IN  IF status = -1 THEN 1 ELSE WEXITSTATUS(status)

run(rq) ==
    IF ~rq.strdup THEN 1
    ELSE LET first == strsep(rq.cmd, 1)
             sp == SplitFrom(rq.cmd, <<first.tok>>, first.arg)
         IN  IF Len(sp.args) = NUM_ARGS /\ sp.arg # NULL THEN 1
             ELSE IF ~rq.fork THEN -1
             ELSE LET status == complete(rq)
                      result == WEXITSTATUS(status)
                  IN  IF status = -1 THEN 1
                      ELSE IF WIFEXITED(status) THEN result
                      ELSE IF WIFSIGNALED(status) /\ result = 0 THEN 1
                      ELSE result

\* n words, one blank between two
RECURSIVE WordsLine(_)
WordsLine(n) == IF n = 1 THEN <<"a">> ELSE WordsLine(n - 1) \o <<" ", "a">>
RunCmds == {WordsLine(n) : n \in 1..MaxWords} \cup {<<"a", " ", " ", "b">>, <<"a", "\t">>}
ChildEnds ==
    {Ended("exit", c, FALSE) : c \in {0, 1, 2, 255}}
    \cup {Ended("signal", s, core) : s \in {9, 15}, core \in BOOLEAN}

InitRun ==
    /\ CoreBoot
    /\ tpc = "call"
    /\ finitconf = << >>
    /\ single = FALSE
    /\ CmdlineInit
    /\ PartsInit
    /\ TreeInit
    /\ runret = 0
    /\ \E cmd \in RunCmds, sd \in BOOLEAN, fk \in BOOLEAN, ex \in BOOLEAN, wt \in BOOLEAN,
          e \in ChildEnds :
          runargs = RunCall(cmd, sd, fk, ex, wt, e)

CallRun ==
    /\ tpc = "call"
    /\ tpc' = "returned"
    /\ runret' = run(runargs)
    /\ UNCHANGED <<obs, got, filters, conn, finitconf, single, parsed, argv, cmdlevel, rescue,
                   runargs, parts, tree, svc, cond, proc, hupd, runlevel, prevlevel, halt, iter, conf, nin>>

NextRun == CallRun

SpecRun == InitRun /\ [][NextRun]_vars

(***************************************************************************)
(* C33: the result of run()                                                *)
(***************************************************************************)
\* the words of the command, blanks between them
WordCount == Cardinality({i \in DOMAIN runargs.cmd : runargs.cmd[i] \in Blanks}) + 1
\* a child was forked for the command and collected
Forked == runargs.strdup /\ WordCount <= NUM_ARGS /\ runargs.fork
Collected == Forked /\ runargs.wait
\* the child ran the command and the command exited by itself with code 0
ExitedZero == runargs.exec /\ runargs.child.kind = "exit" /\ runargs.child.code = 0

\* C33: run(cmd) returns 0 exactly when the child was forked and exited
\* normally with exit status 0; a child ended by a signal gives a nonzero
\* result, as do a failed fork, a failed wait, a failed exec and a command
\* of too many arguments.
C33_RunResult ==
    tpc = "returned" => (runret = 0 <=> (Collected /\ ExitedZero))

C33_Witness ==
    /\ tpc = "returned"
    /\ Collected /\ runargs.exec /\ runargs.child.kind = "signal"
    /\ runret = 1

(***************************************************************************)
(* exec.c: run_parts().  Names and paths are their characters; the        *)
(* directory listing is what scandir() with alphasort hands back.          *)
(***************************************************************************)
\* the names a directory of the model can hold, in alphabetical order
PartNames == << <<"K", "1", "b">>, <<"S", "1", "a">>, <<"S", "x">>, <<"r", "c">> >>
PartDirs == {<<"/", "d">>, <<"/", "d", "/">>}
\* an entry is an executable file, a file without the x bit or a directory
PartKinds == {"exec", "plain", "dir"}

\* paste(): dir and name with one slash between them, cut to the buffer
paste(size, dir, name) ==
    LET full == dir \o (IF dir # << >> /\ dir[Len(dir)] = "/" THEN << >> ELSE <<"/">>) \o name
    IN  SubSeq(full, 1, IF Len(full) < size - 1 THEN Len(full) ELSE size - 1)

\* strlcat(): what fits before the last byte of the buffer is appended
strlcat(dst, src, size) ==
    LET room == size - 1 - Len(dst)
    IN  IF room <= 0 THEN dst
        ELSE dst \o SubSeq(src, 1, IF Len(src) < room THEN Len(src) ELSE room)

isdigit(ch) == ch \in DigitChars

\* the command line handed to `sh -c` for one entry, cmd being NULL
PartCommand(dir, name) ==
    LET size == Len(dir) + Len(name) + 2
        path == paste(size, dir, name)
        sysv == Len(name) >= 2 /\ isdigit(name[2])
    IN  IF name[1] = "S" /\ sysv THEN strlcat(path, <<" ", "s", "t", "a", "r", "t">>, size)
        ELSE IF name[1] = "K" /\ sysv THEN strlcat(path, <<" ", "s", "t", "o", "p">>, size)
        ELSE path

\* the listings: every name is absent or present as one kind of entry
Listings ==
    LET kinds == [1..Len(PartNames) -> PartKinds \cup {"absent"}]
        Sub(k) == {i \in 1..Len(PartNames) : k[i] # "absent"}
        Nth(k, n) == CHOOSE i \in Sub(k) : Cardinality({j \in Sub(k) : j < i}) = n - 1
    IN  {[n \in 1..Cardinality(Sub(k)) |->
             [name |-> PartNames[Nth(k, n)], kind |-> k[Nth(k, n)]]] : k \in kinds}

InitParts ==
    /\ CoreBoot
    /\ tpc = "call"
    /\ finitconf = << >>
    /\ single = FALSE
    /\ CmdlineInit
    /\ RunInit
    /\ TreeInit
    /\ \E dir \in PartDirs, list \in Listings :
          parts = [dir |-> dir, list |-> list, i |-> 0, child |-> FALSE]

\* one turn of the loop: the entry is skipped, or a child is forked for it
\* and waited for
PartsEntry ==
    /\ tpc = "call"
    /\ ~parts.child
    /\ parts.i < Len(parts.list)
    /\ LET e == parts.list[parts.i + 1]
       IN  IF e.kind # "exec"
           THEN /\ parts' = [parts EXCEPT !.i = @ + 1]
                /\ ran' = ran
           ELSE /\ parts' = [parts EXCEPT !.child = TRUE]
                /\ ran' = Append(ran, PartCommand(parts.dir, e.name))
    /\ UNCHANGED <<obs, got, filters, conn, finitconf, single, argv, cmdlevel, rescue, tree,
                   runargs, runret, cfglevel, hostname, network, runparts, rlimit, env,
                   env_list, jobs, svc, cond, proc, hupd, runlevel, prevlevel, halt, iter,
                   conf, nin, tpc>>

\* complete(): the child has ended, the loop goes on
PartsChildEnds ==
    /\ tpc = "call"
    /\ parts.child
    /\ parts' = [parts EXCEPT !.child = FALSE, !.i = @ + 1]
    /\ UNCHANGED <<obs, got, filters, conn, finitconf, single, argv, cmdlevel, rescue, tree,
                   runargs, runret, parsed, svc, cond, proc, hupd, runlevel, prevlevel,
                   halt, iter, conf, nin, tpc>>

PartsReturn ==
    /\ tpc = "call"
    /\ ~parts.child
    /\ parts.i = Len(parts.list)
    /\ tpc' = "returned"
    /\ UNCHANGED <<obs, aux, svc, cond, proc, hupd, runlevel, prevlevel, halt, iter, conf, nin>>

NextParts == PartsEntry \/ PartsChildEnds \/ PartsReturn

SpecParts == InitParts /\ [][NextParts]_vars

(***************************************************************************)
(* C39: what run_parts runs                                                *)
(***************************************************************************)
\* the entries run_parts is to run, in the order of the listing
Runnable == {n \in DOMAIN parts.list : parts.list[n].kind = "exec"}
NthRunnable(k) == CHOOSE n \in Runnable : Cardinality({m \in Runnable : m < n}) = k - 1
\* dir/name, and the argument the name asks for
FullPath(name) ==
    parts.dir \o (IF parts.dir[Len(parts.dir)] = "/" THEN << >> ELSE <<"/">>) \o name
ArgFor(name) ==
    IF Len(name) >= 2 /\ name[2] \in DigitChars /\ name[1] = "S"
    THEN <<" ", "s", "t", "a", "r", "t">>
    ELSE IF Len(name) >= 2 /\ name[2] \in DigitChars /\ name[1] = "K"
    THEN <<" ", "s", "t", "o", "p">>
    ELSE << >>

\* C39: run_parts(dir, NULL) runs every executable entry of dir that is no
\* directory exactly once, in alphabetical order and one at a time, an
\* entry S<digit>... with the argument start and an entry K<digit>... with
\* the argument stop.
C39_RunParts ==
    tpc = "returned" =>
        /\ Len(ran) = Cardinality(Runnable)
        /\ \A k \in 1..Len(ran) :
              LET name == parts.list[NthRunnable(k)].name
              IN  ran[k] = FullPath(name) \o ArgFor(name)

(***************************************************************************)
(* conf.c: the files.  conf_init() reads /etc/finit.conf; conf_reload()    *)
(* reads it again and then every *.conf of /etc/finit.d/ in glob order.    *)
(* parse_conf() is followed a line at a time, every call that has not      *)
(* returned being an entry of loader.stack with its open file, its place   *)
(* in it and its own copy of the limits.                                   *)
(***************************************************************************)
FINIT_CONF == "finit.conf"
\* the glob of /etc/finit.d/*.conf, sorted
FINIT_RCSD == <<"a.conf", "b.conf">>
\* a file outside of the glob, read only when included
IncFile == "x.inc"
\* the descriptors open() can still hand out to the parser
MaxOpen == 4
\* loads after conf_init
MaxLoads == 2
\* lines of the main file and of the first snippet
MaxFileLines == 2

ServiceLine == ConfLine("service", NoField, <<"/sbin/d">>)
RlimitLine == ConfLine("rlimit", NoField, <<"nofile", "10">>)
CgroupLine == ConfLine("cgroup.", NoField, <<"sys">>)
IncludeLine(file) == ConfLine("include", NoField, <<file>>)

OnDisk(lines) == [exists |-> TRUE, lines |-> lines]
LinesUpTo(n, S) == UNION {[1..k -> S] : k \in 0..n}
MainFiles == LinesUpTo(MaxFileLines, {ServiceLine, RlimitLine, CgroupLine, IncludeLine(IncFile)})
SnippetFiles ==
    LinesUpTo(MaxFileLines, {ServiceLine, RlimitLine, CgroupLine, IncludeLine(IncFile),
                             IncludeLine("a.conf")})
IncFiles == {<< >>, <<RlimitLine>>, <<CgroupLine>>, <<ServiceLine>>, <<IncludeLine("a.conf")>>}

\* fexist()
fexist(file) == file \in DOMAIN files /\ files[file].exists

\* a call of parse_conf(): fopen() has succeeded; for a file of finit.d the
\* call starts from a copy of the global limits and from no group
ParseCall(file, is_rcsd) ==
    [file |-> file, pos |-> 1, rlimit |-> rlimit, is_rcsd |-> is_rcsd]
Top == loader.stack[Len(loader.stack)]
Pop == [loader EXCEPT !.stack = SubSeq(@, 1, Len(@) - 1)]
\* the call that reads the line moves past it
Advance == [loader EXCEPT !.stack[Len(loader.stack)].pos = @ + 1]
\* fopen() fails when no descriptor is left
fopen(file) == fexist(file) /\ Len(loader.stack) < MaxOpen

InitTree ==
    /\ CoreBoot
    /\ tpc = "boot"
    /\ finitconf = << >>
    /\ single = FALSE
    /\ CmdlineInit
    /\ RunInit
    /\ PartsInit
    /\ \E m \in MainFiles, a \in SnippetFiles, x \in IncFiles, b, xe \in BOOLEAN :
          files = [f \in DOMAIN NoFiles |->
                     CASE f = FINIT_CONF -> OnDisk(m)
                       [] f = "a.conf" -> OnDisk(a)
                       [] f = "b.conf" -> IF b THEN OnDisk(<<ServiceLine>>) ELSE NoFiles[f]
                       [] f = IncFile -> IF xe THEN OnDisk(x) ELSE NoFiles[f]]
    /\ loader = [todo |-> << >>, stack |-> << >>, n |-> 0]
    /\ cgroup_current = ""
    /\ regs = << >>
    /\ changes = << >>

offtree == <<svc, cond, proc, hupd, runlevel, prevlevel, conf, nin, halt, obs, iter, got, filters,
           conn, finitconf, single, cfglevel, hostname, network, runparts, env, env_list, ran,
           jobs, argv, cmdlevel, rescue, runargs, runret, parts, files, changes>>

\* conf_init(): the limits of PID 1 become the global ones, then
\* parse_conf(FINIT_CONF, 0)
TreeConfInit ==
    /\ tpc = "boot"
    /\ tpc' = "loading"
    /\ rlimit' = InitialRlimit
    /\ loader' = [loader EXCEPT !.todo = <<[file |-> FINIT_CONF, is_rcsd |-> FALSE]>>]
    /\ regs' = << >>
    /\ UNCHANGED <<offtree, cgroup_current>>

\* conf_reload(): global_rlimit is reset, then the main file and the
\* snippets are parsed
TreeConfReload ==
    /\ tpc = "loaded"
    /\ loader.n < MaxLoads
    /\ tpc' = "loading"
    /\ rlimit' = InitialRlimit
    /\ loader' = [loader EXCEPT
                    !.todo = <<[file |-> FINIT_CONF, is_rcsd |-> FALSE]>> \o
                             [i \in 1..Len(FINIT_RCSD) |-> [file |-> FINIT_RCSD[i], is_rcsd |-> TRUE]],
                    !.n = @ + 1]
    /\ regs' = << >>
    /\ UNCHANGED <<offtree, cgroup_current>>

\* conf_init()/conf_reload() call parse_conf() for the next file
TreeOpen ==
    /\ tpc = "loading"
    /\ loader.stack = << >>
    /\ loader.todo # << >>
    /\ LET f == Head(loader.todo)
           rest == [loader EXCEPT !.todo = Tail(@)]
       IN  IF fopen(f.file)
           THEN /\ loader' = [rest EXCEPT !.stack = <<ParseCall(f.file, f.is_rcsd)>>]
                /\ cgroup_current' = IF f.is_rcsd THEN "" ELSE cgroup_current
           ELSE /\ loader' = rest
                /\ UNCHANGED cgroup_current
    /\ UNCHANGED <<offtree, tpc, rlimit, regs>>

\* one turn of the loop of parse_conf(): include, rlimit, cgroup.NAME or a
\* service stanza
TreeLine ==
    /\ tpc = "loading"
    /\ loader.stack # << >>
    /\ Top.pos <= Len(files[Top.file].lines)
    /\ LET line == files[Top.file].lines[Top.pos]
           depth == Len(loader.stack)
       IN  CASE line.cmd = "include" ->
                  \* parse_static(): parse_conf(cmd, is_rcsd); a file that is
                  \* missing or cannot be opened leaves the line to parse_env()
                  IF fopen(line.arg[1])
                  THEN /\ loader' = [Advance EXCEPT
                                       !.stack = Append(@, ParseCall(line.arg[1], Top.is_rcsd))]
                       /\ cgroup_current' = IF Top.is_rcsd THEN "" ELSE cgroup_current
                       /\ UNCHANGED <<rlimit, regs>>
                  ELSE /\ loader' = Advance
                       /\ UNCHANGED <<rlimit, regs, cgroup_current>>
             [] line.cmd = "rlimit" ->
                  \* parse_dynamic(line, is_rcsd ? rlimit : global_rlimit, file)
                  IF Top.is_rcsd
                  THEN /\ loader' = [Advance EXCEPT !.stack[depth].rlimit =
                                        conf_parse_rlimit([rlimit |-> @], line.arg).rlimit]
                       /\ UNCHANGED <<rlimit, regs, cgroup_current>>
                  ELSE /\ rlimit' = conf_parse_rlimit([rlimit |-> rlimit], line.arg).rlimit
                       /\ loader' = Advance
                       /\ UNCHANGED <<regs, cgroup_current>>
             [] line.cmd = "cgroup." ->
                  /\ cgroup_current' = line.arg[1]
                  /\ loader' = Advance
                  /\ UNCHANGED <<rlimit, regs>>
             [] OTHER ->
                  \* service_register(type, x, rlimit, file)
                  /\ regs' = Append(regs, [file |-> Top.file, pos |-> Top.pos,
                                          rlimit |-> IF Top.is_rcsd THEN Top.rlimit ELSE rlimit,
                                          cgroup |-> cgroup_current])
                  /\ loader' = Advance
                  /\ UNCHANGED <<rlimit, cgroup_current>>
    /\ UNCHANGED <<offtree, tpc>>

\* end of file: fclose() and return 0
TreeReturn ==
    /\ tpc = "loading"
    /\ loader.stack # << >>
    /\ Top.pos > Len(files[Top.file].lines)
    /\ loader' = Pop
    /\ UNCHANGED <<offtree, tpc, rlimit, cgroup_current, regs>>

\* conf_init()/conf_reload() return to the event loop
TreeDone ==
    /\ tpc = "loading"
    /\ loader.stack = << >>
    /\ loader.todo = << >>
    /\ tpc' = "loaded"
    /\ UNCHANGED <<offtree, rlimit, tree>>

NextTree == TreeConfInit \/ TreeConfReload \/ TreeOpen \/ TreeLine \/ TreeReturn \/ TreeDone

SpecTree == InitTree /\ [][NextTree]_vars

\* ---- C40 ----
FilesOnDisk == {f \in DOMAIN files : files[f].exists}
\* the files parse_conf() is reading, outermost first
BeingParsed == [i \in 1..Len(loader.stack) |-> loader.stack[i].file]
RECURSIVE LimitsAfter(_, _, _)
\* the limits r after the rlimit directives among the first n lines
LimitsAfter(r, lines, n) ==
    IF n = 0 THEN r
    ELSE LET before == LimitsAfter(r, lines, n - 1)
         IN  IF lines[n].cmd = "rlimit"
             THEN conf_parse_rlimit([rlimit |-> before], lines[n].arg).rlimit
             ELSE before
RECURSIVE GroupAfter(_, _)
\* the group the last cgroup.NAME among the first n lines selects, else none
GroupAfter(lines, n) ==
    IF n = 0 THEN ""
    ELSE IF lines[n].cmd = "cgroup." THEN lines[n].arg[1]
    ELSE GroupAfter(lines, n - 1)
\* the global defaults the main file leaves
MainDefaults ==
    LimitsAfter(InitialRlimit, files[FINIT_CONF].lines, Len(files[FINIT_CONF].lines))
OwnLimits(file, pos) ==
    LimitsAfter(IF file = FINIT_CONF THEN InitialRlimit ELSE MainDefaults,
                files[file].lines, pos - 1)
OwnGroup(file, pos) == GroupAfter(files[file].lines, pos - 1)
\* C34: after every load, each record of the main file and of the snippets
\* has the limits and the group that the rlimit and cgroup.NAME lines before
\* it in its own file give, on top of the main file's defaults: no other
\* file, no include and no earlier load has a say.
C34_FileScopedDefaults ==
    tpc = "loaded" =>
        \A i \in 1..Len(regs) :
            regs[i].file # IncFile =>
                /\ regs[i].rlimit = OwnLimits(regs[i].file, regs[i].pos)
                /\ regs[i].cgroup = OwnGroup(regs[i].file, regs[i].pos)

\* ---- C37 ----
\* record c has been forked and no event on its pidfile has been handled yet
AwaitsPidfile(c) ==
    /\ Registered(Cur, c)
    /\ svc_is_forking(svc[c])
    /\ svc[c].state = "RUNNING"
    /\ svc_is_starting(svc[c])
FirstPidfileEvent(c, content) == AwaitsPidfile(c) /\ PidfileEvent(c, TRUE, content)
C37_NotOnBeforePidfile == \A c \in Cmds : AwaitsPidfile(c) => cond[mkcond(c)] # "ON"
C37_PidFromPidfile ==
    \A c \in Cmds : \A content \in PidfileContents(c) :
        FirstPidfileEvent(c, content) =>
            /\ svc'[c].pid = content
            /\ svc'[c].pid > 0
            /\ cond'[mkcond(c)] = "ON"
\* C37: the svc/<cmd> fact of a forking record is not ON between the fork and
\* the first create/modify/attrib/moved-to event on its pidfile; that event
\* stores the pid read from the pidfile, a process id greater than 0, in the
\* record and sets the fact ON.
C37_ForkingPidfile == [](C37_NotOnBeforePidfile) /\ [][C37_PidFromPidfile]_vars

\* ---- C36 ----
\* the registry and the facts as the reconfiguration hook finds them: marked,
\* swept, not yet stepped
BeforeHook == conf_reload(ReloadMark(Cur), conf)
\* the records whose fact the hook is to set
HookTarget(c) ==
    /\ Registered(BeforeHook, c)
    /\ BeforeHook.svc[c].state = "RUNNING"
    /\ ~svc_is_changed(BeforeHook.svc[c])
    /\ ~svc_is_starting(BeforeHook.svc[c])
\* C36: a reload sets ON the svc/<cmd> fact of the records that are RUNNING,
\* not changed and not starting when the hook runs, whatever the converge
\* phase then does with them, since the hook acts before any record is
\* stepped; the fact of every other record is left as the mark phase left it
\* (FLUX or OFF) unless the record is forked by the converge phase and
\* asserts it itself.
C36_HookReasserts ==
    [][Reload =>
        \A c \in Cmds :
            /\ HookTarget(c) => cond'[mkcond(c)] = "ON"
            /\ (Registered(BeforeHook, c) /\ ~HookTarget(c) /\ ~Forks(c))
                    => /\ cond'[mkcond(c)] = BeforeHook.cond[mkcond(c)]
                       /\ cond'[mkcond(c)] \in {"FLUX", "OFF"}]_vars

\* a reload has found a record running and unchanged, has set its fact and
\* then told it to stop; the fact of a user condition is still in flux
C36_Witness ==
    \E c \in Cmds :
        /\ IsReg(c) /\ StateOf(c) = "STOPPING" /\ ~svc[c].dirty /\ ~svc[c].starting
        /\ svc[c].removed
        /\ FactOf(c) = "ON"
        /\ cond[UsrCond] = "FLUX"

(***************************************************************************)
(* conf.c: the record of changed files.  The watcher of /etc/finit.d notes *)
(* the files its inotify events name; the next reload flags the records of *)
(* those files changed and forgets the list.  Every command has its stanza *)
(* in a file of its own, <cmd>.conf.  Services A and C are plain, B waits   *)
(* for <usr/x,svc/A>; A is reconfigured by SIGHUP, B and C are not.         *)
(***************************************************************************)
MaxTouchInputs == 5
CreateMasks == {"IN_CREATE", "IN_MODIFY", "IN_ATTRIB", "IN_MOVED_TO"}
DeleteMasks == {"IN_DELETE", "IN_MOVED_FROM"}
ConfFile(c) == c

\* conf_find()
conf_find(L, file) == \E i \in 1..Len(L) : L[i] = file
\* drop_change()
drop_change(L, file) == SelectSeq(L, LAMBDA f : f # file)
do_change(L, file, mask) ==
    IF mask \in DeleteMasks THEN drop_change(L, file)
    ELSE IF conf_find(L, file) THEN L
    ELSE <<file>> \o L
\* conf_changed(): realpath() fails for a file that is gone
conf_changed(L, file, exists) == exists /\ conf_find(L, file)
\* drop_changes() that forgets nothing
drop_changes_none(L) == L
drop_changes(L) == << >>

\* the registry's bulk mark_dirty over the records of the files on the list
MarkTouched(S, file, L) ==
    [S EXCEPT !.svc = [c \in Cmds |->
        IF Registered(S, c) /\ ~S.svc[c].removed
           /\ conf_changed(L, ConfFile(c), file[c] # NoLine)
        THEN [S.svc[c] EXCEPT !.dirty = TRUE]
        ELSE S.svc[c]]]

\* conf_reload() of files some of which have been touched
conf_reload_touched(S, file, L) ==
    service_update_rdeps(MarkTouched(parse_conf(svc_mark_dynamic(S), file), file, L))

service_reload_touched(S, file, L) ==
    pidfile_reconf(conf_reload_touched(ReloadMark(S), file, L))

TouchConf ==
    [c \in Cmds |->
        CASE c = "A" -> Stanza("service", {2, 3, 4, 5}, FALSE, << >>, FALSE, 0)
          [] c = "B" -> Stanza("service", {2, 3}, TRUE, <<UsrCond, mkcond("A")>>, FALSE, 0)
          [] OTHER -> Stanza("service", {2, 3, 4, 5}, TRUE, << >>, FALSE, 0)]

InitTouch ==
    /\ conf = TouchConf
    /\ LET S == service_reload_dynamic(BootState, TouchConf)
       IN  /\ svc = S.svc /\ cond = S.cond /\ proc = S.proc /\ hupd = S.hupd
           /\ runlevel = S.runlevel /\ prevlevel = S.prevlevel /\ halt = S.halt
           /\ iter = S.iter
    /\ AuxInit
    /\ nin = 0
    /\ tpc = "off"
    /\ request = << >>
    /\ replies = << >>
    /\ unread = 0

TouchInput == nin < MaxTouchInputs /\ nin' = nin + 1
offtouch == <<obs, got, filters, conn, finitconf, single, parsed, argv, cmdlevel, rescue,
              runargs, runret, parts, files, loader, cgroup_current, regs, tpc>>
supervisor == <<svc, cond, proc, hupd, runlevel, prevlevel, halt, iter>>

\* conf_cb(): an event on an existing file that leaves its text alone
\* (touch), the file is removed, or it is put back
TouchFile(c, mask) ==
    /\ TouchInput
    /\ conf[c] # NoLine
    /\ mask \in CreateMasks
    /\ changes' = do_change(changes, ConfFile(c), mask)
    /\ UNCHANGED <<offtouch, supervisor, conf>>

DeleteFile(c, mask) ==
    /\ TouchInput
    /\ conf[c] # NoLine
    /\ mask \in DeleteMasks
    /\ conf' = [conf EXCEPT ![c] = NoLine]
    /\ changes' = do_change(changes, ConfFile(c), mask)
    /\ UNCHANGED <<offtouch, supervisor>>

CreateFile(c, mask) ==
    /\ TouchInput
    /\ conf[c] = NoLine
    /\ mask \in CreateMasks
    /\ conf' = [conf EXCEPT ![c] = TouchConf[c]]
    /\ changes' = do_change(changes, ConfFile(c), mask)
    /\ UNCHANGED <<offtouch, supervisor>>

\* `initctl reload`: service_reload_dynamic(), conf_reload() ending with
\* drop_changes()
ReloadTouched ==
    /\ TouchInput
    /\ Commit(service_reload_touched(Cur, conf, changes))
    /\ changes' = drop_changes(changes)
    /\ UNCHANGED <<offtouch, conf>>

\* `initctl cond set x`
TouchEmit ==
    /\ nin < MaxTouchInputs
    /\ cond[UsrCond] # "ON"
    /\ ApiEmit(UsrCond, FALSE)

NextTouch ==
    \/ \E c \in Cmds : \E mask \in CreateMasks : TouchFile(c, mask)
    \/ \E c \in Cmds : \E mask \in DeleteMasks : DeleteFile(c, mask)
    \/ \E c \in Cmds : \E mask \in CreateMasks : CreateFile(c, mask)
    \/ ReloadTouched
    \/ TouchEmit
    \/ \E p \in PIDs : Reap(p)
    \/ \E c \in Cmds : StepTick(c)
    \/ \E c \in Cmds : KillTimer(c)

SpecTouch == InitTouch /\ [][NextTouch]_vars

\* ---- C35 ----
\* the file of c has had a create/modify event since the last reload and
\* still exists
FileTouched(c) == conf[c] # NoLine /\ conf_find(changes, ConfFile(c))
\* c runs and no step of its state machine is pending
RunsNow(c) == IsReg(c) /\ StateOf(c) = "RUNNING" /\ svc[c].pid \in PIDs /\ Settled(c)
\* the step tells the process of c to stop, or sends it SIGHUP
RestartedOrReconfigured(c) == svc'[c].state = "STOPPING" \/ svc[c].pid \in hupd'
LeftAlone(c) ==
    /\ svc'[c].state = "RUNNING"
    /\ svc'[c].pid = svc[c].pid
    /\ (svc[c].pid \in hupd') = (svc[c].pid \in hupd)
\* the condition of c names the fact of a service whose file was touched
DependsOnTouched(c) ==
    \E i \in 1..Len(svc[c].cond) : \E x \in Cmds :
        svc[c].cond[i] = mkcond(x) /\ IsReg(x) /\ FileTouched(x)

\* what tells a reload from the other inputs at a glance
ReloadStep ==
    /\ nin' # nin
    /\ conf' = conf
    /\ cond'[UsrCond] # "ON"
    /\ Len(changes') <= Len(changes)

\* C35 as claimed: a reload restarts or reconfigures the running services
\* whose file has had a create/modify event since the previous reload and
\* still exists, leaves the running services of all other files alone, and
\* ends with no file change on record, so that a reload without new events
\* restarts nothing.
C35_TouchToRestart ==
    [][(ReloadStep /\ ReloadTouched) =>
        /\ changes' = << >>
        /\ \A c \in Cmds :
              (RunsNow(c) /\ conf[c] # NoLine) =>
                  IF FileTouched(c) THEN RestartedOrReconfigured(c) ELSE LeftAlone(c)]_vars

\* C35 as amended: the same, but a running service of an untouched file is
\* left alone only if its condition does not name the fact of a service
\* whose file was touched.
C35_TouchToRestartUnlessDependent ==
    [][(ReloadStep /\ ReloadTouched) =>
        /\ changes' = << >>
        /\ \A c \in Cmds :
              (RunsNow(c) /\ conf[c] # NoLine) =>
                  /\ FileTouched(c) => RestartedOrReconfigured(c)
                  /\ (~FileTouched(c) /\ ~DependsOnTouched(c)) => LeftAlone(c)]_vars

\* after a reload (the user fact is in flux, no change is on record) the
\* touched service A has been sent SIGHUP and the untouched C runs on
C35_Witness ==
    /\ changes = << >>
    /\ cond[UsrCond] = "FLUX"
    /\ IsReg("A") /\ StateOf("A") = "RUNNING" /\ svc["A"].pid \in hupd
    /\ IsReg("C") /\ StateOf("C") = "RUNNING" /\ svc["C"].pid \notin hupd
    /\ IsReg("B") /\ StateOf("B") = "STOPPING"

(***************************************************************************)
(* One-shot records: two `run` stanzas A and B and a task (or sysv script) *)
(* C, all of levels 2 and 3; A may wait for <usr/x>.  A pass over the      *)
(* registry steps every record until it rests.  The start of a `run`       *)
(* record blocks the supervisor in complete() until the child has exited:  *)
(* the pass is suspended at that record (tpc names it) and goes on with    *)
(* the next record afterwards.  Other children exit when they please and   *)
(* are collected when the supervisor is back in its loop.                  *)
(***************************************************************************)
MaxSteps == 4
SeqLevels == {2, 3}
SeqConfs ==
    {[c \in Cmds |->
        CASE c = "A" -> Stanza("run", SeqLevels, FALSE, ca, FALSE, 0)
          [] c = "B" -> Stanza("run", SeqLevels, FALSE, << >>, FALSE, 0)
          [] OTHER -> Stanza(tc, SeqLevels, FALSE, << >>, FALSE, 0)] :
     ca \in {<< >>, <<UsrCond>>}, tc \in {"task", "sysv"}}

\* the supervisor waits in complete() for the child of run record c
RunWaits(S, c) ==
    /\ Registered(S, c)
    /\ S.svc[c].type = "run"
    /\ S.svc[c].state = "RUNNING"
    /\ S.svc[c].pid \in PIDs
    /\ S.proc[S.svc[c].pid].st \in {"alive", "zombie"}

RECURSIVE StepToRest(_, _, _)
\* service_step() schedules itself as long as the record changes state
StepToRest(S, c, n) ==
    LET S1 == service_step(S, c)
    IN  IF n = 0 \/ S1 = S THEN S
        ELSE IF RunWaits(S1, c) THEN S1
        ELSE StepToRest(S1, c, n - 1)

RECURSIVE PassLoop(_, _, _)
\* the loop of a pass from record i on; a run record that is started holds
\* the loop up when blocking is set
PassLoop(S, i, blocking) ==
    IF i > Len(CmdOrder) THEN [S |-> S, at |-> "idle"]
    ELSE LET c == CmdOrder[i]
             S1 == StepToRest(S, c, MaxSteps)
         IN  IF blocking /\ RunWaits(S1, c) THEN [S |-> S1, at |-> c]
             ELSE PassLoop(S1, i + 1, blocking)

\* a pass that starts a run record and goes on without waiting for it
PassFrom_nowait(S, i) == PassLoop(S, i, FALSE)

\* service_step_all() from record i on, up to the first run record started
PassFrom(S, i) == PassLoop(S, i, TRUE)

IndexOf(c) == CHOOSE i \in 1..Len(CmdOrder) : CmdOrder[i] = c

InitSeq ==
    /\ conf \in SeqConfs
    /\ LET S == conf_reload(ReloadMark(BootState), conf)
       IN  /\ svc = S.svc /\ cond = S.cond /\ proc = S.proc /\ hupd = S.hupd
           /\ runlevel = S.runlevel /\ prevlevel = S.prevlevel /\ halt = S.halt
           /\ iter = S.iter
    /\ AuxInit
    /\ nin = 0
    /\ tpc = "idle"
    /\ request = << >>
    /\ replies = << >>
    /\ unread = 0

offseq == <<obs, aux, conf>>

\* the event loop calls service_step_all()
SeqPass ==
    /\ tpc = "idle"
    /\ LET R == PassFrom(Cur, 1)
       IN  /\ R.S # Cur
           /\ Commit(R.S)
           /\ tpc' = R.at
    /\ UNCHANGED <<offseq, nin>>

\* complete(): waitpid() returns the child of the run record, the record is
\* done, and the pass goes on behind it
SeqComplete ==
    /\ tpc \in Cmds
    /\ proc[svc[tpc].pid].st = "zombie"
    /\ LET R == PassFrom(service_monitor(Cur, svc[tpc].pid), IndexOf(tpc) + 1)
       IN  /\ Commit(R.S)
           /\ tpc' = R.at
    /\ UNCHANGED <<offseq, nin>>

\* a child exits
SeqExit(p) ==
    /\ ProcExit(p)

\* SIGCHLD for another child, handled in the loop
SeqReap(p) ==
    /\ tpc = "idle"
    /\ Reap(p)

\* `initctl cond set|clear x`, handled in the loop
SeqEmit(minus) ==
    /\ tpc = "idle"
    /\ ApiEmit(UsrCond, minus)

\* `initctl runlevel N`, handled in the loop: the governor sets the level
\* and steps every record
SeqRunlevel(lvl) ==
    /\ tpc = "idle"
    /\ Input
    /\ lvl # runlevel
    /\ LET R == PassFrom([Cur EXCEPT !.prevlevel = runlevel, !.runlevel = lvl], 1)
       IN  /\ Commit(R.S)
           /\ tpc' = R.at
    /\ UNCHANGED <<offseq>>

NextSeq ==
    \/ SeqPass
    \/ SeqComplete
    \/ \E p \in PIDs : SeqExit(p)
    \/ \E p \in PIDs : SeqReap(p)
    \/ \E minus \in BOOLEAN : SeqEmit(minus)
    \/ \E lvl \in SeqLevels : SeqRunlevel(lvl)

SpecSeq == InitSeq /\ [][NextSeq]_vars

\* ---- C32 ----
\* a process of record c has exited and has been collected
HasExited(c) == \E p \in PIDs : proc[p].owner = c /\ proc[p].st = "reaped"
IsRun(c) == IsReg(c) /\ svc[c].type = "run"
\* the run stanzas of the current level declared before b
RunsBefore(b) ==
    {a \in Cmds : IsRun(a) /\ IndexOf(a) < IndexOf(b) /\ runlevel' \in svc[a].runlevels}
\* record a has had a process and none of its processes is alive after the step
TerminatedAfter(a) ==
    /\ \E p \in PIDs : proc'[p].owner = a
    /\ \A p \in PIDs : proc'[p].owner = a => proc'[p].st # "alive"
\* the child of a run stanza is alive
RunAlive == \E c \in Cmds : IsRun(c) /\ Alive(c) # {}
\* nothing is forked and the level stays while the child of a run stanza lives
GovernorWaits == RunAlive => (runlevel' = runlevel /\ \A d \in Cmds : ~Forks(d))

=============================================================================
